---- MODULE Spec2Model ----
(***************************************************************************)
(* A model of the chart functions of ds-dataviz-assets.  Every chart       *)
(* function is a single synchronous call: it reads a dataset and its       *)
(* parameters, computes derived statistics and returns a figure, or        *)
(* raises.  The state is the call in flight (function, arguments) and its  *)
(* outcome (the exception raised, or the values the figure draws).         *)
(*                                                                         *)
(* Numbers.  The code computes in IEEE doubles.  The center lines and      *)
(* limits of the c, np, p, u, I-MR and X-bar charts are modelled by the    *)
(* same expressions computed exactly: a rational is a reduced pair         *)
(* <<n, d>>, d > 0, and a value that involves square roots is kept in      *)
(* closed form a + SUM c_j * sqrt(m_j); their rounding error is not        *)
(* modelled.  NaN (the result of numpy's sqrt of a negative, of a mean     *)
(* over nothing, of a sample deviation of one point) is a value of its own *)
(* and compares false with everything, as in the code.  The EWMA chart     *)
(* (its series, center line and limits) and the ECDF levels, whose values  *)
(* are compared for equality, are modelled in float64 itself, each         *)
(* operation rounded to nearest, ties to even.                             *)
(*                                                                         *)
(* Frames.  The functions that read named columns take a data frame: its   *)
(* row count and, per column it has, the cells in row order.  A fitted     *)
(* model is known only by what predict gives back, which is drawn.  Grid   *)
(* values and mean predictions are exact fractions.                        *)
(*                                                                         *)
(* Sessions.  A caller that holds one dataset and passes it to several     *)
(* chart functions in turn is a call of its own kind: its record keeps the *)
(* dataset as built, the dataset as held now, the functions' default       *)
(* argument objects as held now, the different calls made so far and the   *)
(* chart each of them returned the first time it was made.                 *)
(***************************************************************************)
EXTENDS Integers, Sequences, FiniteSets, TLC

VARIABLES call, out

vars == <<call, out>>

(* ------------------------------ bounds -------------------------------- *)

\* rows of a dataset given to the c / np / p and EWMA charts
MaxUnits == 3
\* rows of a dataset given to the I-MR / X-bar charts
MaxObs == 4
\* measured values are 0..MaxVal
MaxVal == 1
\* rows of a dataset given to the u chart
MaxURows == 2
\* per-row sample sizes (u chart) are 1..MaxSize, and one large sample
MaxSize == 2
\* rows of a dataset given to the SHAP plots
MaxShapRows == 2
\* attributions are -MaxAttr..MaxAttr
MaxAttr == 2
\* baselines are 0..MaxBase
MaxBase == 1

(* ------------------------- optional values ---------------------------- *)

\* Python None / pandas NaN cell: the empty tuple; a present value v: <<v>>
None == <<>>

Some(v) == <<v>>

IsNone(o) == o = <<>>

Val(o) == o[1]

(* ------------------------------ rationals ----------------------------- *)

Abs(n) == IF n < 0 THEN 0 - n ELSE n

Sgn(n) == IF n < 0 THEN 0 - 1 ELSE IF n = 0 THEN 0 ELSE 1

RECURSIVE Gcd(_, _)
Gcd(a, b) == IF b = 0 THEN a ELSE Gcd(b, a % b)

\* the reduced fraction n/d (d # 0)
Rat(n, d) ==
    LET g == Gcd(Abs(n), Abs(d))
        s == IF d < 0 THEN 0 - 1 ELSE 1
    IN  <<(s * n) \div g, (s * d) \div g>>

RZero == <<0, 1>>

ROne == <<1, 1>>

RInt(n) == <<n, 1>>

RAdd(x, y) == Rat(x[1] * y[2] + y[1] * x[2], x[2] * y[2])

RNeg(x) == <<0 - x[1], x[2]>>

RSub(x, y) == RAdd(x, RNeg(y))

RMul(x, y) == Rat(x[1] * y[1], x[2] * y[2])

\* x / y for y # 0
RDiv(x, y) == Rat(x[1] * y[2], x[2] * y[1])

RLe(x, y) == x[1] * y[2] <= y[1] * x[2]

RLt(x, y) == x[1] * y[2] < y[1] * x[2]

RSgn(x) == Sgn(x[1])

RAbs(x) == <<Abs(x[1]), x[2]>>

RECURSIVE RPow(_, _)
RPow(x, k) == IF k = 0 THEN ROne ELSE RMul(x, RPow(x, k - 1))

\* n = r * r * m with m square-free, as <<r, m>>, for n >= 1 (trial division
\* from d, with the squares already taken out collected in r)
RECURSIVE SquarePart(_, _, _)
SquarePart(n, d, r) ==
    IF d * d > n THEN <<r, n>>
    ELSE IF n % (d * d) = 0 THEN SquarePart(n \div (d * d), d, r * d)
    ELSE SquarePart(n, d + 1, r)

(* ------------- numbers: rational part plus square-root terms ---------- *)
\* [nan, a, roots]: NaN, or a + SUM over t in roots of t[1] * sqrt(t[2]),
\* each t[1] a nonzero rational and each t[2] a square-free integer >= 2,
\* the terms in ascending order of t[2] (so equal numbers are equal records).

NaN == [nan |-> TRUE, a |-> RZero, roots |-> <<>>]

Num(r) == [nan |-> FALSE, a |-> r, roots |-> <<>>]

IsNaN(x) == x.nan

\* c * sqrt(m) for a rational c and a square-free integer m >= 1
Term(c, m) ==
    IF c = RZero THEN Num(RZero)
    ELSE IF m = 1 THEN Num(c)
    ELSE [nan |-> FALSE, a |-> RZero, roots |-> <<<<c, m>>>>]

\* numpy.sqrt of a rational: NaN below zero; sqrt(p/q) = rp / (rq * mq) * sqrt(mp * mq)
\* where p = rp * rp * mp and q = rq * rq * mq
NpSqrt(q) ==
    IF RLt(q, RZero) THEN NaN
    ELSE IF q = RZero THEN Num(RZero)
    ELSE LET sp == SquarePart(q[1], 2, 1)
             sq == SquarePart(q[2], 2, 1)
         IN  Term(Rat(sp[1], sq[1] * sq[2]), sp[2] * sq[2])

\* roots with the term t added, like terms joined
RECURSIVE AddTerm(_, _)
AddTerm(roots, t) ==
    IF Len(roots) = 0 THEN <<t>>
    ELSE IF Head(roots)[2] = t[2]
         THEN IF RAdd(Head(roots)[1], t[1]) = RZero THEN Tail(roots)
              ELSE <<<<RAdd(Head(roots)[1], t[1]), t[2]>>>> \o Tail(roots)
    ELSE IF Head(roots)[2] > t[2] THEN <<t>> \o roots
    ELSE <<Head(roots)>> \o AddTerm(Tail(roots), t)

RECURSIVE AddTerms(_, _)
AddTerms(roots, ts) ==
    IF Len(ts) = 0 THEN roots ELSE AddTerms(AddTerm(roots, Head(ts)), Tail(ts))

NAdd(x, y) ==
    IF x.nan \/ y.nan THEN NaN
    ELSE [nan |-> FALSE, a |-> RAdd(x.a, y.a), roots |-> AddTerms(x.roots, y.roots)]

\* c * x for a rational c (0 * nan is nan)
NScale(c, x) ==
    IF x.nan THEN NaN
    ELSE IF c = RZero THEN Num(RZero)
    ELSE [nan |-> FALSE, a |-> RMul(c, x.a),
          roots |-> [i \in 1..Len(x.roots) |-> <<RMul(c, x.roots[i][1]), x.roots[i][2]>>]]

NNeg(x) == NScale(RInt(0 - 1), x)

NSub(x, y) == NAdd(x, NNeg(y))

\* x * y for two numbers that are each a rational or a single root term
NMul(x, y) ==
    IF x.nan \/ y.nan THEN NaN
    ELSE IF Len(x.roots) = 0 THEN NScale(x.a, y)
    ELSE IF Len(y.roots) = 0 THEN NScale(y.a, x)
    ELSE LET g == Gcd(x.roots[1][2], y.roots[1][2])
         IN  Term(RMul(RMul(x.roots[1][1], y.roots[1][1]), RInt(g)),
                  (x.roots[1][2] \div g) * (y.roots[1][2] \div g))

\* d >= 0 for a number d that is not NaN and has at most one root term
NonNeg1(d) ==
    IF Len(d.roots) = 0 THEN RLe(RZero, d.a)
    ELSE LET c == d.roots[1][1]
             cc == RMul(RMul(c, c), RInt(d.roots[1][2]))
         IN  IF d.a = RZero \/ RSgn(d.a) = RSgn(c) THEN RSgn(c) > 0
             ELSE IF RSgn(c) > 0 THEN RLe(RMul(d.a, d.a), cc)
             ELSE RLe(cc, RMul(d.a, d.a))

\* the sign of t1[1] * sqrt(t1[2]) + t2[1] * sqrt(t2[2]) for two unlike root terms
RootPairSgn(t1, t2) ==
    IF RSgn(t1[1]) = RSgn(t2[1]) THEN RSgn(t1[1])
    ELSE IF RLt(RMul(RMul(t2[1], t2[1]), RInt(t2[2])),
                RMul(RMul(t1[1], t1[1]), RInt(t1[2])))
         THEN RSgn(t1[1]) ELSE RSgn(t2[1])

\* d >= 0 for a number d that is not NaN: exact with at most two root terms
\* (a sum of two root terms is compared with the rational part by squaring),
\* and by signs when all of three or more terms agree in sign
NonNeg(d) ==
    IF Len(d.roots) <= 1 THEN NonNeg1(d)
    ELSE IF Len(d.roots) = 2
         THEN LET t1 == d.roots[1]
                  t2 == d.roots[2]
                  s == RootPairSgn(t1, t2)
                  \* (t1 + t2)^2 - a^2
                  sq == NAdd(Num(RSub(RAdd(RMul(RMul(t1[1], t1[1]), RInt(t1[2])),
                                           RMul(RMul(t2[1], t2[1]), RInt(t2[2]))),
                                      RMul(d.a, d.a))),
                             NScale(RMul(RInt(2), RMul(t1[1], t2[1])),
                                    NpSqrt(RInt(t1[2] * t2[2]))))
              IN  IF d.a = RZero \/ RSgn(d.a) = s THEN s > 0
                  ELSE IF s > 0 THEN NonNeg1(sq)
                  ELSE NonNeg1(NNeg(sq))
         ELSE RLe(RZero, d.a) /\ \A i \in 1..Len(d.roots) : RSgn(d.roots[i][1]) > 0

IsZero(d) == ~d.nan /\ d.a = RZero /\ Len(d.roots) = 0

\* x <= y and x < y as floats compare: false when either is NaN
NLe(x, y) == ~x.nan /\ ~y.nan /\ NonNeg(NSub(y, x))

NLt(x, y) == NLe(x, y) /\ ~IsZero(NSub(y, x))

\* Python's max(0, x): x only when x > 0 (so max(0, nan) is 0)
PyMax0(x) == IF NLt(Num(RZero), x) THEN x ELSE Num(RZero)

(* ------------------------- sequences of numbers ----------------------- *)

RECURSIVE SumInts(_)
SumInts(s) == IF Len(s) = 0 THEN 0 ELSE Head(s) + SumInts(Tail(s))

RECURSIVE SumRats(_)
SumRats(s) == IF Len(s) = 0 THEN RZero ELSE RAdd(Head(s), SumRats(Tail(s)))

\* pandas / numpy mean of integers: NaN over nothing
MeanInts(s) == IF Len(s) = 0 THEN NaN ELSE Num(Rat(SumInts(s), Len(s)))

MeanRats(s) == IF Len(s) = 0 THEN NaN ELSE Num(RDiv(SumRats(s), RInt(Len(s))))

\* s[lo..hi] written out, halves first
RECURSIVE ListedRange(_, _, _)
ListedRange(s, lo, hi) ==
    IF lo > hi THEN <<>>
    ELSE IF lo = hi THEN <<s[lo]>>
    ELSE ListedRange(s, lo, (lo + hi) \div 2) \o ListedRange(s, (lo + hi) \div 2 + 1, hi)

\* the sequence s written out, every element computed once
Listed(s) == ListedRange(s, 1, Len(s))

\* [v] * n
Repeat(v, n) == [i \in 1..n |-> v]

SeqsUpTo(S, n) == UNION {[1..k -> S] : k \in 0..n}

\* the set S of integers as an ascending sequence
RECURSIVE SortedSeq(_)
SortedSeq(S) ==
    IF S = {} THEN <<>>
    ELSE LET m == CHOOSE x \in S : \A y \in S : x <= y
         IN  <<m>> \o SortedSeq(S \ {m})

\* the subsequence of s at the positions that satisfy keep (a boolean sequence)
RECURSIVE Filter(_, _)
Filter(s, keep) ==
    IF Len(s) = 0 THEN <<>>
    ELSE (IF Head(keep) THEN <<Head(s)>> ELSE <<>>) \o Filter(Tail(s), Tail(keep))

(* ------------------------- calls and outcomes ------------------------- *)

Idle == [fn |-> "idle"]

NoOut == [err |-> "", steps |-> <<>>]

\* an exception reaches the caller after the steps done so far; no figure
Raise(e, steps) == [err |-> e, steps |-> steps]

\* sqrt of a value that is rational or NaN
SqrtOf(x) == IF x.nan THEN NaN ELSE NpSqrt(x.a)

(* ------------------- binary64 floating point (numpy float64) ---------- *)
\* The EWMA chart and the ECDF levels are computed in float64 and compared
\* with == by their callers, so their rounding is modelled: every operation
\* gives the exact result rounded to the nearest value with a 53-bit
\* mantissa, ties to even.
\* Naturals of any size are sequences of digits, least significant first,
\* with no zero in the last place; the empty sequence is 0.

Radix == 2 ^ 15

\* the bits of a float64 mantissa
MantBits == 53

\* the element of a set of one; the set is enumerated first, so what it is
\* built from is computed once, before it is used
The(S) == CHOOSE v \in S : TRUE

\* the function f on 1..n as a sequence, its values computed once
AsSeq(f) == f \o <<>>

\* digit i of a, 0 outside a
BDigit(a, i) == IF i >= 1 /\ i <= Len(a) THEN a[i] ELSE 0

\* a without the zeros in its last places
BTrim(a) ==
    IF Len(a) = 0 \/ a[Len(a)] # 0 THEN a
    ELSE SubSeq(a, 1, Cardinality({i \in 1..Len(a) : \E k \in i..Len(a) : a[k] # 0}))

\* a natural below 2^31
BFromInt(n) == BTrim(<<n % Radix, (n \div Radix) % Radix, n \div (Radix * Radix)>>)

\* a + b: place i takes a carry when a lower place overflows and every
\* place between is full
BAdd(a, b) ==
    LET s(i) == BDigit(a, i) + BDigit(b, i)
        carry(i) == \E j \in 1..(i - 1) : s(j) >= Radix /\ \A k \in (j + 1)..(i - 1) : s(k) = Radix - 1
        n == (IF Len(a) > Len(b) THEN Len(a) ELSE Len(b)) + 1
    IN  IF Len(a) = 0 THEN b
        ELSE IF Len(b) = 0 THEN a
        ELSE BTrim(AsSeq([i \in 1..n |-> (s(i) + (IF carry(i) THEN 1 ELSE 0)) % Radix]))

\* a - b for a >= b: place i gives a borrow when a lower place falls short
\* and every place between is level
BSub(a, b) ==
    LET d(i) == a[i] - BDigit(b, i)
        borrow(i) == \E j \in 1..(i - 1) : d(j) < 0 /\ \A k \in (j + 1)..(i - 1) : d(k) = 0
    IN  IF Len(a) = 0 \/ Len(b) = 0 THEN a
        ELSE BTrim(AsSeq([i \in 1..Len(a) |-> (d(i) - (IF borrow(i) THEN 1 ELSE 0) + Radix) % Radix]))

\* a < b
BLt(a, b) ==
    IF Len(a) # Len(b) THEN Len(a) < Len(b)
    ELSE \E i \in 1..Len(a) : a[i] < b[i] /\ \A k \in (i + 1)..Len(a) : a[k] = b[k]

\* a * m for 0 <= m < Radix: the low halves of the products of the digits
\* plus their high halves one place up
BMulSmall(a, m) ==
    IF Len(a) = 0 \/ m = 0 THEN <<>>
    ELSE BAdd(AsSeq([i \in 1..Len(a) |-> (a[i] * m) % Radix]),
              <<0>> \o [i \in 1..Len(a) |-> (a[i] * m) \div Radix])

\* what the digits lo..hi of b give to place k of a * b: the low halves of
\* the products of that place and the high halves of those one place lower
RECURSIVE BColumn(_, _, _, _, _)
BColumn(a, b, k, lo, hi) ==
    IF lo = hi
    THEN ((BDigit(a, k - lo + 1) * b[lo]) % Radix) + ((BDigit(a, k - lo) * b[lo]) \div Radix)
    ELSE BColumn(a, b, k, lo, (lo + hi) \div 2) + BColumn(a, b, k, ((lo + hi) \div 2) + 1, hi)

\* a * b, b of fewer than Radix / 2 digits
BMul(a, b) ==
    IF Len(a) = 0 \/ Len(b) = 0 THEN <<>>
    ELSE LET col(k) == BColumn(a, b, k, 1, Len(b))
             n == Len(a) + Len(b)
         IN  BAdd(AsSeq([k \in 1..n |-> col(k) % Radix]), <<0>> \o [k \in 1..n |-> col(k) \div Radix])

\* the number of bits of n < 2^31
IntBitLen(n) == Cardinality({k \in 0..30 : 2 ^ k <= n})

\* the number of bits of a
BBitLen(a) == IF Len(a) = 0 THEN 0 ELSE 15 * (Len(a) - 1) + IntBitLen(a[Len(a)])

\* a * 2^k
BShl(a, k) ==
    LET w == k \div 15
        m == 2 ^ (k % 15)
    IN  IF Len(a) = 0 THEN <<>>
        ELSE BTrim(AsSeq([i \in 1..(Len(a) + w + 1) |->
                            IF i <= w THEN 0
                            ELSE ((BDigit(a, i - w) * m) % Radix)
                                 + ((BDigit(a, i - w - 1) * m) \div Radix)]))

\* a \div 2^k
BShr(a, k) ==
    LET w == k \div 15
        m == 2 ^ (k % 15)
    IN  IF Len(a) <= w THEN <<>>
        ELSE BTrim(AsSeq([i \in 1..(Len(a) - w) |->
                            (a[i + w] \div m) + (BDigit(a, i + w + 1) % m) * (Radix \div m)]))

\* bit k of a (bit 0 is the lowest)
BBit(a, k) ==
    IF k \div 15 >= Len(a) THEN 0 ELSE (a[(k \div 15) + 1] \div (2 ^ (k % 15))) % 2

\* whether any of the k lowest bits of a is set
BLowBits(a, k) ==
    \/ \E i \in 1..Len(a) : i <= k \div 15 /\ a[i] # 0
    \/ (k \div 15 < Len(a) /\ a[(k \div 15) + 1] % (2 ^ (k % 15)) # 0)

\* A float is [s, m, e]: the value s * m * 2^e with s the sign (0 for zero)
\* and 2^52 <= m < 2^53, so equal values are equal records; s = 2 marks NaN.
\* The exponent is not bounded: nothing computed here overflows or is
\* subnormal.
FZero == [s |-> 0, m |-> <<>>, e |-> 0]

FNaN == [s |-> 2, m |-> <<>>, e |-> 0]

FIsNaN(a) == a.s = 2

\* s * n * 2^e rounded to the nearest float, ties to even
FRound(s, n, e) ==
    LET fit(r, sh) ==
            IF BBitLen(r) > MantBits
            THEN [s |-> s, m |-> BShr(r, 1), e |-> e + sh + 1]
            ELSE [s |-> s, m |-> r, e |-> e + sh]
        up(q, sh) == BBit(n, sh - 1) = 1 /\ (BLowBits(n, sh - 1) \/ BBit(q, 0) = 1)
        nearest(q, sh) == fit(IF up(q, sh) THEN BAdd(q, <<1>>) ELSE q, sh)
        pack(len) ==
            IF s = 0 \/ len = 0 THEN FZero
            ELSE IF len <= MantBits
            THEN [s |-> s, m |-> BShl(n, MantBits - len), e |-> e - (MantBits - len)]
            ELSE nearest(BShr(n, len - MantBits), len - MantBits)
    IN  pack(BBitLen(n))

\* float(k) for an integer k
FFromInt(k) == FRound(Sgn(k), BFromInt(Abs(k)), 0)

FMul(a, b) ==
    IF FIsNaN(a) \/ FIsNaN(b) THEN FNaN
    ELSE FRound(a.s * b.s, BMul(a.m, b.m), a.e + b.e)

FNeg(a) == IF FIsNaN(a) THEN FNaN ELSE [a EXCEPT !.s = 0 - a.s]

FAdd(a, b) ==
    IF FIsNaN(a) \/ FIsNaN(b) THEN FNaN
    ELSE IF a.s = 0 THEN b
    ELSE IF b.s = 0 THEN a
    ELSE LET e0 == IF a.e < b.e THEN a.e ELSE b.e
             sum(x, y) ==
                 IF a.s = b.s THEN FRound(a.s, BAdd(x, y), e0)
                 ELSE IF BLt(x, y) THEN FRound(b.s, BSub(y, x), e0)
                 ELSE FRound(a.s, BSub(x, y), e0)
         IN  sum(BShl(a.m, a.e - e0), BShl(b.m, b.e - e0))

FSub(a, b) == FAdd(a, FNeg(b))

\* a < b and a <= b; a comparison with NaN is false. The difference of two
\* different floats is never rounded to zero
FLt(a, b) == ~FIsNaN(a) /\ ~FIsNaN(b) /\ FSub(a, b).s = 0 - 1

FLe(a, b) == ~FIsNaN(a) /\ ~FIsNaN(b) /\ FSub(a, b).s <= 0

\* a == b
FEq(a, b) == ~FIsNaN(a) /\ ~FIsNaN(b) /\ a = b

\* the largest q <= guess with q * d <= cur
RECURSIVE BFit(_, _, _)
BFit(cur, d, guess) ==
    IF BLt(cur, BMulSmall(d, guess)) THEN BFit(cur, d, guess - 1) ELSE guess

\* one step of the long division by d, whose last digit is Radix / 2 or
\* more: digit h comes down to the remainder st[2], and the digit of the
\* quotient this gives, guessed from the leading digits and then at most 2
\* too large, goes before those of st[1]
BDivDigit(h, d, st) ==
    LET n == Len(d)
        guess(t) == IF t \div d[n] >= Radix THEN Radix - 1 ELSE t \div d[n]
        fit(cur) ==
            IF Len(cur) < n THEN 0
            ELSE BFit(cur, d, guess(BDigit(cur, n + 1) * Radix + cur[n]))
        digit(cur, q) == <<<<q>> \o st[1], BSub(cur, BMulSmall(d, q))>>
    IN  The({The({digit(cur, q) : q \in {fit(cur)}}) : cur \in {BTrim(<<h>> \o st[2])}})

\* the digits i, i - 1, .. 1 of a brought down in turn
RECURSIVE BDivFrom(_, _, _, _)
BDivFrom(a, d, i, st) ==
    IF i = 0 THEN st
    ELSE The({BDivFrom(a, d, i - 1, next) : next \in {BDivDigit(a[i], d, st)}})

\* <<a \div d, a % d>> for d > 0: both are shifted until the last digit of d
\* is Radix / 2 or more, and the division starts from the leading digits of
\* a, one fewer than d has
BDivMod(a, d) ==
    LET sh == 15 - IntBitLen(d[Len(d)])
        unshift(st) == <<BTrim(st[1]), BShr(st[2], sh)>>
        div(num, den) ==
            IF Len(num) < Len(den) THEN <<<<>>, a>>
            ELSE unshift(BDivFrom(num, den, Len(num) - Len(den) + 1,
                                  <<<<>>, SubSeq(num, Len(num) - Len(den) + 2, Len(num))>>))
    IN  The({div(num, den) : num \in {BShl(a, sh)}, den \in {BShl(d, sh)}})

\* a / b of two floats: 0 / 0 is NaN; a nonzero a is never divided by 0 here
FDiv(a, b) ==
    IF FIsNaN(a) \/ FIsNaN(b) \/ b.s = 0 THEN FNaN
    ELSE IF a.s = 0 THEN FZero
    ELSE LET sticky(dv) == IF Len(dv[2]) = 0 THEN <<>> ELSE <<1>>
             pack(dv) == FRound(a.s * b.s, BAdd(BShl(dv[1], 1), sticky(dv)), a.e - b.e - 57)
         IN  The({pack(dv) : dv \in {BDivMod(BShl(a.m, 56), b.m)}})

\* the float a literal p/q denotes, and float(p) / float(q) (q > 0)
FDivInts(p, q) == FDiv(FFromInt(p), FFromInt(q))

\* the integer square root of n < 2^30: its multiple of 256, then the rest
IntSqrt(n) ==
    LET rest(high) == high + Cardinality({l \in 1..255 : (high + l) * (high + l) <= n})
    IN  rest(256 * Cardinality({h \in 1..127 : (256 * h) * (256 * h) <= n}))

\* one step of Newton's iteration for the integer square root of a: from an
\* r at or above it the step gives a value nearer to it, and never below it
BNewton(a, r) == The({BShr(BAdd(r, dv[1]), 1) : dv \in {BDivMod(a, r)}})

\* the largest q <= r with q * q <= a
RECURSIVE BSettle(_, _)
BSettle(a, r) == IF BLt(a, BMul(r, r)) THEN BSettle(a, BSub(r, <<1>>)) ELSE r

\* <<r, a - r * r>> for the largest r with r * r <= a, a of 112 bits or
\* fewer: two steps from the root of the leading 30 bits or fewer of a, plus
\* one, come within 2 of it
BSqrtRem(a) ==
    LET over == IF BBitLen(a) > 30 THEN BBitLen(a) - 30 ELSE 0
        sh == over + (over % 2)
        first(lead) == BDigit(lead, 2) * Radix + BDigit(lead, 1)
        start == {BShl(BFromInt(IntSqrt(first(BShr(a, sh))) + 1), sh \div 2)}
        once == {BNewton(a, r) : r \in start}
        twice == {BNewton(a, r) : r \in once}
        root == {BSettle(a, r) : r \in twice}
    IN  The({<<r, BSub(a, BMul(r, r))>> : r \in root})

\* math.sqrt of a float a >= 0, correctly rounded
FSqrt(a) ==
    IF FIsNaN(a) THEN FNaN
    ELSE IF a.s = 0 THEN FZero
    ELSE LET k == IF a.e % 2 = 0 THEN 58 ELSE 59
             sticky(sq) == IF Len(sq[2]) = 0 THEN <<>> ELSE <<1>>
             pack(sq) == FRound(1, BAdd(BShl(sq[1], 1), sticky(sq)), ((a.e - k) \div 2) - 1)
         IN  The({pack(sq) : sq \in {BSqrtRem(BShl(a.m, k))}})

\* a^k for k >= 1, by squaring
RECURSIVE BPow(_, _)
BPow(a, k) ==
    IF k = 1 THEN a
    ELSE IF k % 2 = 1 THEN The({BMul(h, a) : h \in {BPow(a, k - 1)}})
    ELSE The({BMul(h, h) : h \in {BPow(a, k \div 2)}})

\* the number of zero digits a starts with
BLowZeros(a) == Cardinality({i \in 1..Len(a) : \A k \in 1..i : a[k] = 0})

\* a ** k for an integer k >= 1: the exact power, rounded once (what the C
\* library's pow gives for the bases and exponents met here); the zero
\* digits the mantissa starts with go to the exponent first
FPow(a, k) ==
    LET pack(z) ==
            FRound(IF k % 2 = 0 THEN a.s * a.s ELSE a.s,
                   BPow(SubSeq(a.m, z + 1, Len(a.m)), k), (a.e + 15 * z) * k)
    IN  IF FIsNaN(a) THEN FNaN ELSE pack(BLowZeros(a.m))

(* ---------------- c / np / p / u charts: the defect rules ------------- *)

\* c_chart.py count_defects: each violated limit adds one
c_count_defects(x, lower_spec, upper_spec) ==
    (IF ~IsNone(lower_spec) /\ x < Val(lower_spec) THEN 1 ELSE 0)
    + (IF ~IsNone(upper_spec) /\ x > Val(upper_spec) THEN 1 ELSE 0)

\* np_chart.py / p_chart.py is_defective, u_chart.py count_defects: 0 or 1
is_defective(x, lower_spec, upper_spec) ==
    IF ~IsNone(lower_spec) /\ x < Val(lower_spec) THEN 1
    ELSE IF ~IsNone(upper_spec) /\ x > Val(upper_spec) THEN 1
    ELSE 0

\* a guard that fires as soon as one limit is missing
NoSpecLimit_either(lower_spec, upper_spec) == IsNone(lower_spec) \/ IsNone(upper_spec)

\* the guard every one of the four charts starts with
NoSpecLimit(lower_spec, upper_spec) == IsNone(lower_spec) /\ IsNone(upper_spec)

(* ------------------------------ c chart ------------------------------- *)

c_limits(c_bar) ==
    LET w == NScale(RInt(3), SqrtOf(c_bar))
    IN  [ucl |-> NAdd(c_bar, w), lcl |-> PyMax0(NSub(c_bar, w))]

\* index: df.index, the row labels the traces are drawn against
plot_c_chart(values, index, lower_spec, upper_spec) ==
    IF NoSpecLimit(lower_spec, upper_spec)
    THEN Raise("ValueError", <<"check_spec">>)
    ELSE LET n == Len(values)
             defect_count == [i \in 1..n |->
                                c_count_defects(values[i], lower_spec, upper_spec)]
             c_bar == MeanInts(defect_count)
             lim == c_limits(c_bar)
         IN  [err |-> "",
              steps |-> <<"check_spec", "copy", "defects", "center", "limits", "figure">>,
              x |-> index,
              y |-> defect_count,
              cl |-> Repeat(c_bar, n),
              ucl |-> Repeat(lim.ucl, n),
              lcl |-> Repeat(lim.lcl, n)]

(* --------------------------- np and p charts -------------------------- *)

\* df.index // subgroup_size, row by row (subgroup_size >= 1)
SubgroupOf(index, subgroup_size) ==
    [i \in 1..Len(index) |-> index[i] \div subgroup_size]

\* groupby('subgroup'): the group keys ascending, and per key the rows' flags
GroupKeys(subgroup) == SortedSeq({subgroup[i] : i \in 1..Len(subgroup)})

GroupRows(subgroup, key) == {i \in 1..Len(subgroup) : subgroup[i] = key}

RECURSIVE SumOver(_, _)
SumOver(f, S) ==
    IF S = {} THEN 0
    ELSE LET i == CHOOSE j \in S : TRUE IN f[i] + SumOver(f, S \ {i})

\* limits a fixed distance from the count center line, not scaled by the subgroup size
np_limits_unscaled(np_bar, subgroup_size) ==
    LET n == RInt(subgroup_size)
        p_bar == NScale(RDiv(ROne, n), np_bar)
        rad == IF p_bar.nan THEN NaN
               ELSE NpSqrt(RDiv(RMul(p_bar.a, RSub(ROne, p_bar.a)), n))
        w == NScale(RInt(3), rad)
    IN  [ucl |-> NAdd(np_bar, w), lcl |-> PyMax0(NSub(np_bar, w))]

np_limits(np_bar, subgroup_size) ==
    LET n == RInt(subgroup_size)
        p_bar == NScale(RDiv(ROne, n), np_bar)
        rad == IF p_bar.nan THEN NaN
               ELSE NpSqrt(RDiv(RMul(p_bar.a, RSub(ROne, p_bar.a)), n))
        w == NScale(RInt(3), rad)
    IN  [ucl |-> NScale(n, NAdd(p_bar, w)),
         lcl |-> PyMax0(NScale(n, NSub(p_bar, w)))]

plot_np_chart(values, index, subgroup_size, lower_spec, upper_spec) ==
    IF NoSpecLimit(lower_spec, upper_spec)
    THEN Raise("ValueError", <<"check_spec">>)
    ELSE LET n == Len(values)
             defective == [i \in 1..n |->
                             is_defective(values[i], lower_spec, upper_spec)]
             subgroup == SubgroupOf(index, subgroup_size)
             keys == GroupKeys(subgroup)
             k == Len(keys)
             np_values == [g \in 1..k |->
                             SumOver(defective, GroupRows(subgroup, keys[g]))]
             np_bar == MeanInts(np_values)
             lim == np_limits(np_bar, subgroup_size)
         IN  [err |-> "",
              steps |-> <<"check_spec", "copy", "defects", "group", "center",
                          "limits", "figure">>,
              x |-> keys,
              y |-> np_values,
              cl |-> Repeat(np_bar, k),
              ucl |-> Repeat(lim.ucl, k),
              lcl |-> Repeat(lim.lcl, k)]

p_limits(p_bar, subgroup_size) ==
    LET rad == IF p_bar.nan THEN NaN
               ELSE NpSqrt(RDiv(RMul(p_bar.a, RSub(ROne, p_bar.a)),
                                RInt(subgroup_size)))
        w == NScale(RInt(3), rad)
    IN  [ucl |-> NAdd(p_bar, w), lcl |-> PyMax0(NSub(p_bar, w))]

plot_p_chart(values, index, subgroup_size, lower_spec, upper_spec) ==
    IF NoSpecLimit(lower_spec, upper_spec)
    THEN Raise("ValueError", <<"check_spec">>)
    ELSE LET n == Len(values)
             defective == [i \in 1..n |->
                             is_defective(values[i], lower_spec, upper_spec)]
             subgroup == SubgroupOf(index, subgroup_size)
             keys == GroupKeys(subgroup)
             k == Len(keys)
             p == [g \in 1..k |->
                     Rat(SumOver(defective, GroupRows(subgroup, keys[g])),
                         Cardinality(GroupRows(subgroup, keys[g])))]
             p_bar == MeanRats(p)
             lim == p_limits(p_bar, subgroup_size)
         IN  [err |-> "",
              steps |-> <<"check_spec", "copy", "defects", "group", "center",
                          "limits", "figure">>,
              x |-> keys,
              y |-> p,
              cl |-> Repeat(p_bar, k),
              ucl |-> Repeat(lim.ucl, k),
              lcl |-> Repeat(lim.lcl, k)]

(* ------------------------------- u chart ------------------------------ *)

\* pandas Series.clip(lower=0): NaN stays NaN
Clip0(x) == IF x.nan THEN NaN ELSE IF NLt(x, Num(RZero)) THEN Num(RZero) ELSE x

\* limits of one width for every row, whatever its sample size
u_limits_unsized(u_bar, sample_size) ==
    LET rad == IF u_bar.nan THEN NaN ELSE NpSqrt(u_bar.a)
        w == NScale(RInt(3), rad)
    IN  [ucl |-> NAdd(u_bar, w), lcl |-> Clip0(NSub(u_bar, w))]

u_limits(u_bar, sample_size) ==
    LET rad == IF u_bar.nan THEN NaN
               ELSE NpSqrt(RDiv(u_bar.a, RInt(sample_size)))
        w == NScale(RInt(3), rad)
    IN  [ucl |-> NAdd(u_bar, w), lcl |-> Clip0(NSub(u_bar, w))]

\* a rate outside the limits on either side
u_out_of_control_either(u, ucl, lcl) == NLt(ucl, Num(u)) \/ NLt(Num(u), lcl)

\* df['u'] > df['UCL']: the lower limit plays no part
u_out_of_control(u, ucl, lcl) == NLt(ucl, Num(u))

\* material: whether the dataset has the column 'material_salida'
plot_u_chart(values, sizes, material, lower_spec, upper_spec) ==
    IF NoSpecLimit(lower_spec, upper_spec)
    THEN Raise("ValueError", <<"check_spec">>)
    ELSE LET n == Len(values)
             defect_count == [i \in 1..n |->
                                is_defective(values[i], lower_spec, upper_spec)]
             u == [i \in 1..n |-> Rat(defect_count[i], sizes[i])]
             u_bar == IF SumInts(sizes) = 0 THEN NaN
                      ELSE Num(Rat(SumInts(defect_count), SumInts(sizes)))
             lim == Listed([i \in 1..n |-> u_limits(u_bar, sizes[i])])
             out_of_control == Listed([i \in 1..n |->
                                         u_out_of_control(u[i], lim[i].ucl, lim[i].lcl)])
             in_control == [i \in 1..n |-> ~out_of_control[i]]
             x == [i \in 1..n |-> i - 1]
             hover_text == [i \in 1..n |-> <<i - 1, values[i]>>]
             done == <<"check_spec", "copy", "defects", "center", "limits", "flags">>
         IN  IF ~material THEN Raise("KeyError", done)
             ELSE [err |-> "",
                   steps |-> done \o <<"hover", "figure">>,
                   in_x |-> Filter(x, in_control),
                   in_y |-> Filter(u, in_control),
                   in_text |-> Filter(hover_text, in_control),
                   ooc_x |-> Filter(x, out_of_control),
                   ooc_y |-> Filter(u, out_of_control),
                   ooc_text |-> Filter(hover_text, out_of_control),
                   x |-> x,
                   cl |-> Repeat(u_bar, n),
                   ucl |-> [i \in 1..n |-> lim[i].ucl],
                   lcl |-> [i \in 1..n |-> lim[i].lcl]]

(* ---------------------- statistics of a sample ------------------------ *)

RECURSIVE SumNums(_)
SumNums(s) == IF Len(s) = 0 THEN Num(RZero) ELSE NAdd(Head(s), SumNums(Tail(s)))

\* numpy mean of numbers (NaN over nothing, NaN if any is NaN)
MeanNums(s) == IF Len(s) = 0 THEN NaN ELSE NScale(Rat(1, Len(s)), SumNums(s))

SumSquares(xs) == SumInts([i \in 1..Len(xs) |-> xs[i] * xs[i]])

\* numpy var(ddof=1) of integers: NaN below two points
SampleVar(xs) ==
    LET n == Len(xs)
    IN  IF n < 2 THEN NaN
        ELSE Num(Rat(n * SumSquares(xs) - SumInts(xs) * SumInts(xs), n * (n - 1)))

\* numpy std(ddof=1)
SampleStd(xs) == SqrtOf(SampleVar(xs))

MaxOf(xs) == CHOOSE m \in {xs[i] : i \in 1..Len(xs)} : \A i \in 1..Len(xs) : xs[i] <= m

MinOf(xs) == CHOOSE m \in {xs[i] : i \in 1..Len(xs)} : \A i \in 1..Len(xs) : m <= xs[i]

\* Python's n // s for n >= 0 and s # 0 (floor division)
FloorDiv(n, s) == IF s > 0 THEN n \div s ELSE 0 - ((n + Abs(s) - 1) \div Abs(s))

\* Series.dropna(): the positions (1-based) of the cells that hold a value
RECURSIVE KeptFrom(_, _)
KeptFrom(cells, i) ==
    IF i > Len(cells) THEN <<>>
    ELSE (IF IsNone(cells[i]) THEN <<>> ELSE <<i>>) \o KeptFrom(cells, i + 1)

Kept(cells) == KeptFrom(cells, 1)

\* the grouping column: the label of the row at position i
GroupLabel(i) == 100 + i

(* ------------------------------ EWMA chart ---------------------------- *)

\* a series started at the first observation
ewma_first(x) == FFromInt(x[1])

\* np.mean of a column of integers: the exact sum divided in float64
ewma_mean(x) == FDivInts(SumInts(x), Len(x))

\* line 35: lambda_value * x[i] + (1 - lambda_value) * ewma[i - 1] in float64;
\* lambda_value is the literal n/d
ewma_step(lambda_value, xi, prev) ==
    The({FAdd(FMul(lam, FFromInt(xi)), FMul(FSub(FFromInt(1), lam), prev)) :
         lam \in {FDivInts(lambda_value[1], lambda_value[2])}})

\* lines 31-35: the first i values of ewma (i >= 1)
RECURSIVE ewma_upto(_, _, _)
ewma_upto(x, lambda_value, i) ==
    IF i = 1 THEN <<ewma_mean(x)>>
    ELSE The({Append(before, ewma_step(lambda_value, x[i], before[i - 1])) :
              before \in {ewma_upto(x, lambda_value, i - 1)}})

\* the first i of the floats q added in order, from 0.0 (numpy's sum of
\* fewer than 8 values)
RECURSIVE umr_sum(_, _)
umr_sum(q, i) == IF i = 0 THEN FZero ELSE FAdd(umr_sum(q, i - 1), q[i])

\* np.std(x, ddof=1) of a column of integers: the mean, the deviations from
\* it, their squares summed, the sum divided by n - 1 (0.0 / 0 is NaN), the
\* root
ewma_sigma(x) ==
    LET square(dev) == FMul(dev, dev)
        sq(arrmean) == AsSeq([i \in 1..Len(x) |-> square(FSub(FFromInt(x[i]), arrmean))])
    IN  The({FSqrt(FDiv(umr_sum(q, Len(x)), FFromInt(Len(x) - 1))) :
             q \in {sq(arrmean) : arrmean \in {FDivInts(SumInts(x), Len(x))}}})

\* line 38: sqrt(lambda / (2 - lambda)), the first factor of every std_dev,
\* lambda the literal n/d in [0, 2)
ewma_root(lambda_value) ==
    The({FSqrt(FDiv(lam, FSub(FFromInt(2), lam))) :
         lam \in {FDivInts(lambda_value[1], lambda_value[2])}})

\* line 38: root * sigma * sqrt(1 - (1 - lambda) ** (2 * (i + 1))) in float64
\* for the 0-based point i
ewma_std_dev(lambda_value, root, sigma, i) ==
    LET one == FFromInt(1)
    IN  The({FMul(FMul(root, sigma), FSqrt(FSub(one, FPow(FSub(one, lam), 2 * (i + 1))))) :
             lam \in {FDivInts(lambda_value[1], lambda_value[2])}})

plot_ewma_chart(x, lambda_value, l_value) ==
    LET n == Len(x)
    IN  IF n = 0 THEN Raise("IndexError", <<"copy", "mean", "std">>)
        ELSE IF lambda_value = RInt(2)
        THEN Raise("ZeroDivisionError", <<"copy", "mean", "std", "ewma">>)
        ELSE IF RLt(lambda_value, RZero) \/ RLt(RInt(2), lambda_value)
        THEN Raise("ValueError", <<"copy", "mean", "std", "ewma">>)
        ELSE LET std_dev(lam_root, sd) ==
                     AsSeq([i \in 1..n |-> ewma_std_dev(lambda_value, lam_root, sd, i - 1)])
                 chart(mu, dev) ==
                     [err |-> "",
                      steps |-> <<"copy", "mean", "std", "ewma", "limits", "figure">>,
                      y |-> ewma_upto(x, lambda_value, n),
                      cl |-> Repeat(mu, n),
                      ucl |-> [i \in 1..n |-> FAdd(mu, FMul(FFromInt(l_value), dev[i]))],
                      lcl |-> [i \in 1..n |-> FSub(mu, FMul(FFromInt(l_value), dev[i]))]]
             IN  The({chart(mu, dev) :
                      mu \in {ewma_mean(x)},
                      dev \in {std_dev(lam_root, sd) :
                               lam_root \in {ewma_root(lambda_value)}, sd \in {ewma_sigma(x)}}})

(* ------------------------------ I-MR chart ---------------------------- *)

\* constants for n = 2, in thousandths
imr_E2 == 2659

imr_D3 == 0

imr_D4 == 3267

Milli(c) == Rat(c, 1000)

\* the differences with their sign kept
moving_range_signed(data) == [i \in 1..(Len(data) - 1) |-> data[i + 1] - data[i]]

\* numpy abs(diff(data))
moving_range(data) == [i \in 1..(Len(data) - 1) |-> Abs(data[i + 1] - data[i])]

\* a check that lets a single observation through
imr_too_few_empty(data) == Len(data) < 1

\* line 24: len(data) < 2
imr_too_few(data) == Len(data) < 2

plot_imr_chart(cells) ==
    LET kept == Kept(cells)
        data == [i \in 1..Len(kept) |-> Val(cells[kept[i]])]
    IN  IF imr_too_few(data) THEN Raise("ValueError", <<"dropna", "check_rows">>)
        ELSE LET moving_ranges == moving_range(data)
                 X_bar == MeanInts(data)
                 MR_bar == MeanInts(moving_ranges)
             IN  [err |-> "",
                  steps |-> <<"dropna", "check_rows", "ranges", "labels", "limits",
                              "figure">>,
                  ind_y |-> data,
                  ind_custom |-> [i \in 1..Len(kept) |-> GroupLabel(kept[i])],
                  mr_y |-> moving_ranges,
                  mr_custom |-> [i \in 1..(Len(kept) - 1) |->
                                   <<GroupLabel(kept[i]), GroupLabel(kept[i + 1])>>],
                  ind_cl |-> X_bar,
                  ind_ucl |-> NAdd(X_bar, NScale(Milli(imr_E2), MR_bar)),
                  ind_lcl |-> NSub(X_bar, NScale(Milli(imr_E2), MR_bar)),
                  mr_cl |-> MR_bar,
                  mr_ucl |-> NScale(Milli(imr_D4), MR_bar),
                  mr_lcl |-> NScale(Milli(imr_D3), MR_bar)]

(* ------------------------- X-bar / R and X-bar / S -------------------- *)

\* the keys of the constants tables: subgroup sizes 2..10
MinSupported == 2

MaxSupported == 10

Supported(subgroup_size) == subgroup_size \in MinSupported..MaxSupported

\* the tables, in thousandths, for subgroup sizes 2, 3, ..., 10
xbar_r_A2 == <<1880, 1023, 729, 577, 483, 419, 373, 337, 308>>

xbar_r_D3 == <<0, 0, 0, 0, 0, 76, 136, 184, 223>>

xbar_r_D4 == <<3267, 2574, 2282, 2114, 2004, 1924, 1864, 1816, 1777>>

xbar_s_A3 == <<2659, 1954, 1628, 1427, 1287, 1182, 1099, 1032, 975>>

xbar_s_B3 == <<0, 0, 0, 0, 30, 118, 185, 239, 284>>

xbar_s_B4 == <<3267, 2568, 2266, 2089, 1970, 1882, 1815, 1761, 1716>>

Const(table, subgroup_size) == Milli(table[subgroup_size - 1])

\* subgroups that advance by one observation instead of subgroup_size
Subgroup_sliding(data, subgroup_size, i) == SubSeq(data, i, i + subgroup_size - 1)

\* data[:k*s].reshape((k, s)): row i (1-based) of the k rows of s values
Subgroup(data, subgroup_size, i) ==
    SubSeq(data, (i - 1) * subgroup_size + 1, i * subgroup_size)

\* what lines 29-46 of both functions do before the constants are looked up:
\* the exception raised there, or the subgroups formed
xbar_split(cells, subgroup_size) ==
    LET kept == Kept(cells)
        data == [i \in 1..Len(kept) |-> Val(cells[kept[i]])]
    IN  IF subgroup_size = 0 THEN [err |-> "ZeroDivisionError", steps |-> <<"dropna">>]
        ELSE LET k == FloorDiv(Len(data), subgroup_size)
             IN  IF k = 0
                 THEN [err |-> "ValueError", steps |-> <<"dropna", "check_rows">>]
                 ELSE IF k < 0
                 THEN [err |-> "ValueError", steps |-> <<"dropna", "check_rows", "reshape">>]
                 ELSE [err |-> "",
                       steps |-> <<"dropna", "check_rows", "reshape", "stats", "labels">>,
                       k |-> k,
                       groups |-> [i \in 1..k |-> Subgroup(data, subgroup_size, i)],
                       labels |-> [i \in 1..k |->
                                     [j \in 1..subgroup_size |->
                                        GroupLabel(Subgroup(kept, subgroup_size, i)[j])]]]

xbar_means(groups) == [i \in 1..Len(groups) |-> MeanInts(groups[i])]

xbar_r_chart_plotly(cells, subgroup_size) ==
    LET sp == xbar_split(cells, subgroup_size)
    IN  IF sp.err # "" THEN Raise(sp.err, sp.steps)
        ELSE IF ~Supported(subgroup_size)
        THEN Raise("ValueError", sp.steps \o <<"center", "constants">>)
        ELSE LET xbars == xbar_means(sp.groups)
                 ranges == [i \in 1..sp.k |-> MaxOf(sp.groups[i]) - MinOf(sp.groups[i])]
                 Xbar_bar == MeanNums(xbars)
                 R_bar == MeanInts(ranges)
             IN  [err |-> "",
                  steps |-> sp.steps \o <<"center", "constants", "limits", "figure">>,
                  xbar_y |-> xbars,
                  r_y |-> ranges,
                  custom |-> sp.labels,
                  x_cl |-> Xbar_bar,
                  x_ucl |-> NAdd(Xbar_bar, NScale(Const(xbar_r_A2, subgroup_size), R_bar)),
                  x_lcl |-> NSub(Xbar_bar, NScale(Const(xbar_r_A2, subgroup_size), R_bar)),
                  r_cl |-> R_bar,
                  r_ucl |-> NScale(Const(xbar_r_D4, subgroup_size), R_bar),
                  r_lcl |-> NScale(Const(xbar_r_D3, subgroup_size), R_bar)]

plot_xbar_s_chart(cells, subgroup_size) ==
    LET sp == xbar_split(cells, subgroup_size)
    IN  IF sp.err # "" THEN Raise(sp.err, sp.steps)
        ELSE IF ~Supported(subgroup_size)
        THEN Raise("ValueError", sp.steps \o <<"center", "constants">>)
        ELSE LET xbars == xbar_means(sp.groups)
                 s_values == [i \in 1..sp.k |-> SampleStd(sp.groups[i])]
                 Xbar_bar == MeanNums(xbars)
                 S_bar == MeanNums(s_values)
             IN  [err |-> "",
                  steps |-> sp.steps \o <<"center", "constants", "limits", "figure">>,
                  xbar_y |-> xbars,
                  s_y |-> s_values,
                  custom |-> sp.labels,
                  x_cl |-> Xbar_bar,
                  x_ucl |-> NAdd(Xbar_bar, NScale(Const(xbar_s_A3, subgroup_size), S_bar)),
                  x_lcl |-> NSub(Xbar_bar, NScale(Const(xbar_s_A3, subgroup_size), S_bar)),
                  s_cl |-> S_bar,
                  s_ucl |-> NScale(Const(xbar_s_B4, subgroup_size), S_bar),
                  s_lcl |-> NScale(Const(xbar_s_B3, subgroup_size), S_bar)]

(* ------------------- SHAP decision / waterfall / force ---------------- *)
\* The explainer is an external routine: shap_values = explainer(data) gives,
\* for each row, a baseline and one attribution per feature, and the model's
\* prediction for the row is their sum.  An explanation is a record
\* [base, values], both indexed by the row (1-based here, 0-based in the
\* code's row_index and indices).

\* data.columns
FeatureNames == <<"f1", "f2", "f3">>

NumFeatures == Len(FeatureNames)

\* data.iloc[row]: the feature values of the row at 0-based position row
RowData(row) == [f \in 1..NumFeatures |-> 10 * (row + 1) + f]

\* what the model predicts for the row: the explainer's contract
Prediction(expl, row) == expl.base[row + 1] + SumInts(expl.values[row + 1])

Reverse(s) == [i \in 1..Len(s) |-> s[Len(s) + 1 - i]]

\* numpy cumsum
RECURSIVE CumSum(_)
CumSum(s) ==
    IF Len(s) = 0 THEN <<>>
    ELSE LET front == CumSum(SubSeq(s, 1, Len(s) - 1))
         IN  Append(front, (IF Len(front) = 0 THEN 0 ELSE front[Len(front)]) + s[Len(s)])

\* the indices in S in ascending order of key, ties by ascending index
RECURSIVE ArgsortFrom(_, _)
ArgsortFrom(keys, S) ==
    IF S = {} THEN <<>>
    ELSE LET m == CHOOSE i \in S :
                    \A j \in S : keys[i] < keys[j] \/ (keys[i] = keys[j] /\ i <= j)
         IN  <<m>> \o ArgsortFrom(keys, S \ {m})

\* numpy argsort (ascending, equal keys in index order)
Argsort(keys) == ArgsortFrom(keys, 1..Len(keys))

\* the order pandas sort_values(ascending=False) gives: descending key,
\* equal keys in index order
ArgsortDesc(keys) == Argsort([i \in 1..Len(keys) |-> 0 - keys[i]])

AbsSeq(s) == [i \in 1..Len(s) |-> Abs(s[i])]

\* decision_plot.py lines 30-42: the trace of one entry of indices
decision_trace(expl, idx, feature_names) ==
    LET row_values == expl.values[idx + 1]
        base_value == expl.base[1]
        cumulative == [i \in 1..(Len(row_values) + 1) |->
                         CumSum(<<0>> \o row_values)[i] + base_value]
    IN  [idx |-> idx,
         x |-> [i \in 1..(Len(feature_names) + 1) |-> i - 1],
         y |-> cumulative,
         text |-> <<<<"Base Value", 0>>>> \o
                  [i \in 1..Len(feature_names) |-> <<feature_names[i], row_values[i]>>]]

\* columns: data.columns; feature_names: the argument, None by default
\* (lines 21-22: the names are then the dataset's columns)
plot_shap_decision_catboost(expl, columns, indices, feature_names) ==
    LET features == IF IsNone(feature_names) THEN columns ELSE Val(feature_names)
    IN  IF Len(indices) = 0 THEN Raise("UnboundLocalError", <<"explain">>)
        ELSE [err |-> "",
              steps |-> <<"explain", "traces", "layout">>,
              traces |-> [t \in 1..Len(indices) |->
                            decision_trace(expl, indices[t], features)],
              ticktext |-> <<"Base Value">> \o features]

\* the ascending order, not reversed
waterfall_order_ascending(row_shap_values) == Argsort(AbsSeq(row_shap_values))

\* waterfall_plot.py lines 34-37
waterfall_order(row_shap_values) == Reverse(Argsort(AbsSeq(row_shap_values)))

\* one go.Waterfall trace per feature; the call passes no base
plot_shap_waterfall_catboost(expl, row_index) ==
    LET row_shap_values == expl.values[row_index + 1]
        base_value == expl.base[row_index + 1]
        predicted_value == base_value + SumInts(row_shap_values)
        row_data == RowData(row_index)
        sorted_idx == waterfall_order(row_shap_values)
    IN  [err |-> "",
         steps |-> <<"explain", "sort", "traces", "layout">>,
         traces |-> [i \in 1..Len(sorted_idx) |->
                       [name |-> FeatureNames[sorted_idx[i]],
                        base |-> None,
                        y |-> row_shap_values[sorted_idx[i]],
                        value |-> row_data[sorted_idx[i]]]],
         base_value |-> base_value,
         predicted_value |-> predicted_value]

\* force_plot_by_domain.py lines 39-43
force_order(row_shap_values) == ArgsortDesc(AbsSeq(row_shap_values))

\* the bars of lines 64-76: bar i is drawn from current_position
RECURSIVE force_bars(_, _, _, _)
force_bars(order, row_shap_values, row_features, current_position) ==
    IF Len(order) = 0 THEN <<>>
    ELSE <<[name |-> FeatureNames[Head(order)],
            base |-> Some(current_position),
            x |-> row_shap_values[Head(order)],
            value |-> row_features[Head(order)]]>>
         \o force_bars(Tail(order), row_shap_values, row_features,
                       current_position + row_shap_values[Head(order)])

plot_shap_force_catboost_by_domain(expl, row_index) ==
    LET base_value == expl.base[row_index + 1]
        row_shap_values == expl.values[row_index + 1]
        row_features == RowData(row_index)
    IN  [err |-> "",
         steps |-> <<"explain", "sort", "traces", "marker", "layout">>,
         traces |-> force_bars(force_order(row_shap_values), row_shap_values,
                               row_features, base_value),
         prediction |-> base_value + SumInts(row_shap_values)]

\* where plotly draws a bar of a trace from: its base, 0 when none is set
DrawnFrom(trace) == IF IsNone(trace.base) THEN 0 ELSE Val(trace.base)

(* ------------------ the datasets and parameters drawn ----------------- *)

Values == 0..MaxVal

\* a specification limit: absent, or a number in or just above the values
SpecLimits == {None} \cup {Some(v) : v \in 0..(MaxVal + 1)}

\* row labels of a dataset of n rows: the default RangeIndex, the labels
\* left by a filter that kept every second row, and the labels of two
\* frames concatenated without ignore_index (labels repeat)
IndexKinds == {"range", "filtered", "concat"}

IndexOf(kind, n) ==
    [i \in 1..n |-> IF kind = "range" THEN i - 1
                    ELSE IF kind = "filtered" THEN 2 * (i - 1)
                    ELSE (i - 1) % 2]

(* ------------------------------ the calls ----------------------------- *)

Init == call = Idle /\ out = NoOut

\* the call returns (or its exception reaches the caller): nothing is kept
Return == call.fn # "idle" /\ call' = Idle /\ out' = NoOut

Call_c_chart ==
    /\ call.fn = "idle"
    /\ \E values \in SeqsUpTo(Values, MaxUnits), kind \in IndexKinds,
          lo \in SpecLimits, up \in SpecLimits :
         /\ call' = [fn |-> "plot_c_chart", values |-> values,
                     index |-> IndexOf(kind, Len(values)),
                     lower_spec |-> lo, upper_spec |-> up]
         /\ out' = plot_c_chart(values, IndexOf(kind, Len(values)), lo, up)

Call_np_chart ==
    /\ call.fn = "idle"
    /\ \E values \in SeqsUpTo(Values, MaxUnits), kind \in IndexKinds,
          size \in 1..MaxUnits, lo \in SpecLimits, up \in SpecLimits :
         /\ call' = [fn |-> "plot_np_chart", values |-> values,
                     index |-> IndexOf(kind, Len(values)), subgroup_size |-> size,
                     lower_spec |-> lo, upper_spec |-> up]
         /\ out' = plot_np_chart(values, IndexOf(kind, Len(values)), size, lo, up)

Call_p_chart ==
    /\ call.fn = "idle"
    /\ \E values \in SeqsUpTo(Values, MaxUnits), kind \in IndexKinds,
          size \in 1..MaxUnits, lo \in SpecLimits, up \in SpecLimits :
         /\ call' = [fn |-> "plot_p_chart", values |-> values,
                     index |-> IndexOf(kind, Len(values)), subgroup_size |-> size,
                     lower_spec |-> lo, upper_spec |-> up]
         /\ out' = plot_p_chart(values, IndexOf(kind, Len(values)), size, lo, up)

\* df[sample_size_col]: small samples, and one of a dozen units
SampleSizes == (1..MaxSize) \cup {12}

Call_u_chart ==
    /\ call.fn = "idle"
    /\ \E n \in 0..MaxURows, material \in BOOLEAN, lo \in SpecLimits, up \in SpecLimits :
         \E values \in [1..n -> Values], sizes \in [1..n -> SampleSizes] :
           /\ call' = [fn |-> "plot_u_chart", values |-> values, sizes |-> sizes,
                       material |-> material, lower_spec |-> lo, upper_spec |-> up]
           /\ out' = plot_u_chart(values, sizes, material, lo, up)

\* ten samples of one unit and, somewhere among them, one of two hundred
\* units with the other value: the center line is low enough and the large
\* sample large enough for its lower limit to lie above 0
Call_u_chart_long ==
    /\ call.fn = "idle"
    /\ \E at \in {1, 6, 11}, v \in Values, lo \in SpecLimits, up \in SpecLimits :
         LET values == [i \in 1..11 |-> IF i = at THEN MaxVal - v ELSE v]
             sizes == [i \in 1..11 |-> IF i = at THEN 200 ELSE 1]
         IN  /\ call' = [fn |-> "plot_u_chart", values |-> values, sizes |-> sizes,
                         material |-> TRUE, lower_spec |-> lo, upper_spec |-> up]
             /\ out' = plot_u_chart(values, sizes, TRUE, lo, up)

NextAttr ==
    Call_c_chart \/ Call_np_chart \/ Call_p_chart \/ Call_u_chart
    \/ Call_u_chart_long \/ Return

\* the attribute charts: c, np, p and u
SpecAttr == Init /\ [][NextAttr]_vars

\* a measurement column: each cell a value or missing
Cells == {None} \cup {Some(v) : v \in Values}

\* a column of n values 0, 1, ..., MaxVal, 0, 1, ... with none missing
Ramp(n) == [i \in 1..n |-> Some((i - 1) % (MaxVal + 1))]

\* columns long enough to fill a subgroup of a size beyond the tables
LongColumns == {Ramp(MaxSupported + 1), Ramp(MaxSupported + 2)}

Columns == SeqsUpTo(Cells, MaxObs) \cup LongColumns

\* subgroup sizes: negative, zero, one, the supported 2..10, and beyond
SubgroupSizes == (0 - 2)..(MaxSupported + 2)

\* lambda_value: -1/2, 0, 1/2, 1, 3/2, 2, 5/2, and the default 1/5
LambdaValues == {Rat(k, 2) : k \in (0 - 1)..5} \cup {Rat(1, 5)}

\* l_value (3 by default)
LValues == {1, 3}

\* the values of an EWMA column
Levels == {0, 1, 3}

Call_ewma_chart ==
    /\ call.fn = "idle"
    /\ \E x \in SeqsUpTo(Levels, MaxUnits), lambda_value \in LambdaValues,
          l_value \in LValues :
         /\ call' = [fn |-> "plot_ewma_chart", x |-> x,
                     lambda_value |-> lambda_value, l_value |-> l_value]
         /\ out' = plot_ewma_chart(x, lambda_value, l_value)

Call_imr_chart ==
    /\ call.fn = "idle"
    /\ \E cells \in Columns :
         /\ call' = [fn |-> "plot_imr_chart", cells |-> cells]
         /\ out' = plot_imr_chart(cells)

Call_xbar_r_chart ==
    /\ call.fn = "idle"
    /\ \E cells \in Columns, size \in SubgroupSizes :
         /\ call' = [fn |-> "xbar_r_chart_plotly", cells |-> cells, subgroup_size |-> size]
         /\ out' = xbar_r_chart_plotly(cells, size)

Call_xbar_s_chart ==
    /\ call.fn = "idle"
    /\ \E cells \in Columns, size \in SubgroupSizes :
         /\ call' = [fn |-> "plot_xbar_s_chart", cells |-> cells, subgroup_size |-> size]
         /\ out' = plot_xbar_s_chart(cells, size)

NextVar == Call_ewma_chart \/ Call_imr_chart \/ Call_xbar_r_chart \/ Call_xbar_s_chart \/ Return

\* the variables charts: EWMA, I-MR, X-bar/R and X-bar/S
SpecVar == Init /\ [][NextVar]_vars

NextSPC == NextAttr \/ NextVar

\* every SPC chart
SpecSPC == Init /\ [][NextSPC]_vars

\* s rotated left by k places
Rotate(s, k) == [i \in 1..Len(s) |-> s[((i - 1 + k) % Len(s)) + 1]]

\* the explanations drawn: any baseline per row, any attribution vector for
\* row 0, and for row r that vector rotated by r places (every row ranges
\* over all vectors, and the rows of one explanation differ)
Explanations(rows) ==
    {[base |-> b, values |-> [r \in 1..rows |-> Rotate(v, r - 1)]] :
        b \in [1..rows -> 0..MaxBase],
        v \in [1..NumFeatures -> (0 - MaxAttr)..MaxAttr]}

\* indices: up to two rows, in any order, repeats allowed
IndexLists(rows) == SeqsUpTo(0..(rows - 1), 2)

Call_shap_decision ==
    /\ call.fn = "idle"
    /\ \E rows \in 1..MaxShapRows :
         \E expl \in Explanations(rows), indices \in IndexLists(rows) :
           /\ call' = [fn |-> "plot_shap_decision_catboost", expl |-> expl,
                       indices |-> indices]
           /\ out' = plot_shap_decision_catboost(expl, FeatureNames, indices, None)

Call_shap_waterfall ==
    /\ call.fn = "idle"
    /\ \E rows \in 1..MaxShapRows :
         \E expl \in Explanations(rows), row_index \in 0..(rows - 1) :
           /\ call' = [fn |-> "plot_shap_waterfall_catboost", expl |-> expl,
                       row_index |-> row_index]
           /\ out' = plot_shap_waterfall_catboost(expl, row_index)

Call_shap_force ==
    /\ call.fn = "idle"
    /\ \E rows \in 1..MaxShapRows :
         \E expl \in Explanations(rows), row_index \in 0..(rows - 1) :
           /\ call' = [fn |-> "plot_shap_force_catboost_by_domain", expl |-> expl,
                       row_index |-> row_index]
           /\ out' = plot_shap_force_catboost_by_domain(expl, row_index)

NextShap == Call_shap_decision \/ Call_shap_waterfall \/ Call_shap_force \/ Return

\* the SHAP decision, waterfall and force plots
SpecShap == Init /\ [][NextShap]_vars

(* ------------------------------ data frames --------------------------- *)
\* a data frame of n rows: cols gives, for each column name the frame has,
\* its n cells in row order

MaxRows == 3

HasColumn(df, col) == col \in DOMAIN df.cols

\* the frames of n rows whose columns are some of names, cells drawn from V
FramesOf(names, n, V) ==
    UNION {{[n |-> n, cols |-> c] : c \in [S -> [1..n -> V]]} : S \in SUBSET names}

\* the names asked for that the frame does not have
AbsentFrom(df, requested) ==
    {requested[i] : i \in {j \in 1..Len(requested) : ~HasColumn(df, requested[j])}}

(* --------------------------- correlation heatmap ---------------------- *)

Dot(x, y) == SumInts([i \in 1..Len(x) |-> x[i] * y[i]])

\* Pearson's r of two columns without missing cells: NaN when either column
\* does not vary (fewer than two rows included)
pearson(x, y) ==
    LET n == Len(x)
        sxy == n * Dot(x, y) - SumInts(x) * SumInts(y)
        sxx == n * Dot(x, x) - SumInts(x) * SumInts(x)
        syy == n * Dot(y, y) - SumInts(y) * SumInts(y)
    IN  IF sxx * syy = 0 THEN NaN
        ELSE NScale(RInt(sxy), NpSqrt(Rat(1, sxx * syy)))

\* twice the average rank of each cell
Rank2(x) ==
    [i \in 1..Len(x) |->
       2 * Cardinality({j \in 1..Len(x) : x[j] < x[i]})
       + Cardinality({j \in 1..Len(x) : x[j] = x[i]}) + 1]

spearman(x, y) == pearson(Rank2(x), Rank2(y))

\* Kendall's tau-b
kendall(x, y) ==
    LET pairs == {p \in (1..Len(x)) \X (1..Len(x)) : p[1] < p[2]}
        s(p) == Sgn(x[p[1]] - x[p[2]]) * Sgn(y[p[1]] - y[p[2]])
        conc == Cardinality({p \in pairs : s(p) > 0})
        disc == Cardinality({p \in pairs : s(p) < 0})
        tx == Cardinality({p \in pairs : x[p[1]] = x[p[2]] /\ y[p[1]] # y[p[2]]})
        ty == Cardinality({p \in pairs : x[p[1]] # x[p[2]] /\ y[p[1]] = y[p[2]]})
        d == (conc + disc + tx) * (conc + disc + ty)
    IN  IF d = 0 THEN NaN ELSE NScale(RInt(conc - disc), NpSqrt(Rat(1, d)))

CorrMethods == {"pearson", "kendall", "spearman"}

corr(x, y, method) ==
    IF method = "pearson" THEN pearson(x, y)
    ELSE IF method = "kendall" THEN kendall(x, y)
    ELSE spearman(x, y)

\* DataFrame.corr, the entry of columns i and j of the frame (positions):
\* with method 'kendall' pandas fills the matrix pair by pair, NaN when the
\* columns have no row (min_periods = 1), 1.0 on the diagonal without
\* computing anything, and Kendall's tau elsewhere; 'pearson' and 'spearman'
\* compute every entry, the diagonal included
corr_entry(x, y, i, j, method) ==
    IF method = "kendall"
    THEN IF Len(x) < 1 THEN NaN
         ELSE IF i = j THEN Num(ROne)
         ELSE kendall(x, y)
    ELSE corr(x, y, method)

plot_heatmap(df, columns_to_include, methods) ==
    LET valid_columns == SelectSeq(columns_to_include, LAMBDA col : HasColumn(df, col))
        k == Len(valid_columns)
    IN  IF k = 0 THEN Raise("ValueError", <<"validate">>)
        ELSE IF methods \notin CorrMethods
        THEN Raise("ValueError", <<"validate", "corr">>)
        ELSE [err |-> "",
              steps |-> <<"validate", "corr", "figure">>,
              labels |-> valid_columns,
              title |-> valid_columns,
              z |-> Listed([i \in 1..k |->
                      Listed([j \in 1..k |->
                        corr_entry(df.cols[valid_columns[i]],
                                   df.cols[valid_columns[j]], i, j, methods)])])]

\* the columns a heatmap frame may have, and a name no frame has
HeatColumns == {"a", "b"}

HeatRequests == SeqsUpTo(HeatColumns \cup {"c"}, 2)

HeatMethods == {"pearson", "spearman", "kendall", "cosine"}

Call_heatmap ==
    /\ call.fn = "idle"
    /\ \E n \in 0..MaxRows, columns_to_include \in HeatRequests, methods \in HeatMethods :
         \E df \in FramesOf(HeatColumns, n, Values) :
           /\ call' = [fn |-> "plot_heatmap", df |-> df,
                       requested |-> columns_to_include, methods |-> methods]
           /\ out' = plot_heatmap(df, columns_to_include, methods)

(* ------------------------------- run chart ---------------------------- *)

\* Series.dropna(): the values of the cells that hold one, in row order
Dropna(cells) == [i \in 1..Len(Kept(cells)) |-> Val(cells[Kept(cells)[i]])]

\* Series.mean(): missing cells skipped, NaN over nothing
series_mean(cells) == MeanInts(Dropna(cells))

\* the lower of the two middle values, not their average
series_median_low(cells) ==
    LET xs == Dropna(cells)
        o == Argsort(xs)
    IN  IF Len(xs) = 0 THEN NaN ELSE Num(RInt(xs[o[(Len(xs) + 1) \div 2]]))

\* Series.median(): missing cells skipped, the middle value of the sorted
\* values or the average of the two middle ones, NaN over nothing
series_median(cells) ==
    LET xs == Dropna(cells)
        k == Len(xs)
        o == Argsort(xs)
    IN  IF k = 0 THEN NaN
        ELSE IF k % 2 = 1 THEN Num(RInt(xs[o[(k + 1) \div 2]]))
        ELSE Num(Rat(xs[o[k \div 2]] + xs[o[k \div 2 + 1]], 2))

\* time_col is None or Some(name); each trace is drawn over the rows in
\* plotted order
plot_run_chart(df, column, time_col, center_line) ==
    LET sorted == ~IsNone(time_col)
        done == IF sorted THEN <<"copy", "sort">> ELSE <<"copy">>
    IN  IF sorted /\ ~HasColumn(df, Val(time_col)) THEN Raise("KeyError", <<"copy">>)
        ELSE IF ~HasColumn(df, column) THEN Raise("KeyError", done)
        ELSE IF center_line \notin {"mean", "median"}
        THEN Raise("ValueError", done \o <<"column">>)
        ELSE LET order == IF sorted THEN Argsort(df.cols[Val(time_col)])
                          ELSE [i \in 1..df.n |-> i]
                 x_vals == [i \in 1..df.n |->
                              IF sorted THEN df.cols[Val(time_col)][order[i]]
                              ELSE order[i] - 1]
                 y_vals == [i \in 1..df.n |-> df.cols[column][order[i]]]
                 cl_value == IF center_line = "mean" THEN series_mean(y_vals)
                             ELSE series_median(y_vals)
             IN  [err |-> "",
                  steps |-> done \o <<"column", "center", "figure">>,
                  traces |-> <<[name |-> "observed", x |-> x_vals, y |-> y_vals],
                               [name |-> "center", x |-> x_vals,
                                y |-> Repeat(cl_value, df.n)]>>]

\* a time column of n rows: already ascending, or descending with pairs tied
TimeColumns(n) == {[i \in 1..n |-> i], [i \in 1..n |-> (n - i) \div 2]}

\* frames with a measurement column v, a time column t, or both
RunFrames(n) ==
    LET V == [1..n -> Cells]
        T == TimeColumns(n)
    IN  {[n |-> n, cols |-> [k \in {"v", "t"} |-> IF k = "v" THEN v ELSE t]] :
             v \in V, t \in T}
        \cup {[n |-> n, cols |-> [k \in {"v"} |-> v]] : v \in V}
        \cup {[n |-> n, cols |-> [k \in {"t"} |-> t]] : t \in T}

CenterLines == {"mean", "median", "mode"}

Call_run_chart ==
    /\ call.fn = "idle"
    /\ \E n \in 0..MaxRows, time_col \in {None, Some("t")},
          center_line \in CenterLines :
         \E df \in RunFrames(n) :
           /\ call' = [fn |-> "plot_run_chart", df |-> df, column |-> "v",
                       time_col |-> time_col, center_line |-> center_line,
                       requested |-> <<"v">> \o time_col]
           /\ out' = plot_run_chart(df, "v", time_col, center_line)

(* ---------------------------- residual charts ------------------------- *)
\* predict stands for what model.predict(X) gives back, one value per row

\* numpy.sort of integers
np_sort(xs) == [i \in 1..Len(xs) |-> xs[Argsort(xs)[i]]]

\* i / n in float64 for the frames of 20 rows or fewer, computed once
EcdfRatios == [n \in 1..20 |-> [i \in 0..n |-> FDivInts(i, n)]]

\* i / n in float64
ecdf_ratio(i, n) == IF n \in DOMAIN EcdfRatios THEN EcdfRatios[n][i] ELSE FDivInts(i, n)

\* levels that start at 0 and stop short of 1
ecdf_from_zero(n) == [i \in 1..n |-> ecdf_ratio(i - 1, n)]

\* np.arange(1, n + 1) / n: the integers 1..n, each divided by n in float64
ecdf_levels(n) == [i \in 1..n |-> ecdf_ratio(i, n)]

\* data[names]: every name must be a column
HasColumns(data, names) == \A i \in 1..Len(names) : HasColumn(data, names[i])

plot_cumulative_error_distribution(predict, feature_names, data, target_name) ==
    IF ~HasColumns(data, feature_names) THEN Raise("KeyError", <<>>)
    ELSE IF ~HasColumn(data, target_name) THEN Raise("KeyError", <<"features">>)
    ELSE LET y_true == data.cols[target_name]
             residuals == [i \in 1..data.n |-> Abs(y_true[i] - predict[i])]
             sorted_residuals == np_sort(residuals)
         IN  [err |-> "",
              steps |-> <<"features", "target", "predict", "residuals", "sort",
                          "figure">>,
              x |-> sorted_residuals,
              y |-> ecdf_levels(Len(sorted_residuals))]

\* the prediction taken for the residual
residual_as_prediction(actual, predicted) == predicted

\* y_true - y_pred, row by row
residual(actual, predicted) == actual - predicted

\* the ids in the hover text are written out as strings
plot_residuals_vs_predicted(predict, feature_names, data, target_name, id_col) ==
    IF ~HasColumns(data, feature_names) THEN Raise("KeyError", <<>>)
    ELSE IF ~HasColumn(data, target_name) THEN Raise("KeyError", <<"features">>)
    ELSE IF ~HasColumn(data, id_col)
    THEN Raise("KeyError", <<"features", "target", "predict", "residuals">>)
    ELSE IF data.n = 0
    THEN Raise("ValueError", <<"features", "target", "predict", "residuals", "ids",
                               "hover", "points">>)
    ELSE LET y_true == data.cols[target_name]
             residuals == [i \in 1..data.n |-> residual(y_true[i], predict[i])]
             ids == [i \in 1..data.n |-> ToString(data.cols[id_col][i])]
             hover_text == [i \in 1..data.n |->
                              [id |-> ids[i], predicted |-> predict[i],
                               residual |-> residuals[i], actual |-> y_true[i]]]
         IN  [err |-> "",
              steps |-> <<"features", "target", "predict", "residuals", "ids",
                          "hover", "points", "line", "figure">>,
              points |-> [x |-> predict, y |-> residuals, text |-> hover_text],
              line |-> [x |-> <<MinOf(predict), MaxOf(predict)>>, y |-> <<0, 0>>]]

plot_actual_vs_predicted_scatter(predict, feature_names, data, target_name, id_col) ==
    IF ~HasColumns(data, feature_names) THEN Raise("KeyError", <<>>)
    ELSE IF ~HasColumn(data, target_name) THEN Raise("KeyError", <<"features">>)
    ELSE IF ~HasColumn(data, id_col)
    THEN Raise("KeyError", <<"features", "target", "predict">>)
    ELSE IF data.n = 0
    THEN Raise("ValueError", <<"features", "target", "predict", "ids", "errors">>)
    ELSE LET y_true == data.cols[target_name]
             ids == [i \in 1..data.n |-> ToString(data.cols[id_col][i])]
             errors == [i \in 1..data.n |-> predict[i] - y_true[i]]
             min_val == MinOf(y_true \o predict)
             max_val == MaxOf(y_true \o predict)
             hover_text == [i \in 1..data.n |->
                              [id |-> ids[i], actual |-> y_true[i],
                               predicted |-> predict[i], error |-> errors[i]]]
         IN  [err |-> "",
              steps |-> <<"features", "target", "predict", "ids", "errors",
                          "range", "hover", "points", "line", "figure">>,
              points |-> [x |-> y_true, y |-> predict, text |-> hover_text],
              line |-> [x |-> <<min_val, max_val>>, y |-> <<min_val, max_val>>]]

\* targets and predictions row by row, and the dataset of ten rows whose
\* target is 5 throughout and is predicted exactly
ModelCases ==
    UNION {{[target |-> t, predict |-> p] :
               t \in [1..n -> Values], p \in [1..n -> Values]} : n \in 1..MaxRows}
    \cup {[target |-> Repeat(5, 10), predict |-> Repeat(5, 10)]}

ModelColumns == {"f1", "target", "id"}

\* the frame of a case, with the columns in missing left out
ModelFrame(case, missing) ==
    [n |-> Len(case.target),
     cols |-> [k \in ModelColumns \ missing |->
                 IF k = "f1" THEN [i \in 1..Len(case.target) |-> i]
                 ELSE IF k = "target" THEN case.target
                 ELSE [i \in 1..Len(case.target) |-> GroupLabel(i)]]]

\* no column missing, or one of them
MissingColumns == {{}} \cup {{k} : k \in ModelColumns}

Call_cumulative_error ==
    /\ call.fn = "idle"
    /\ \E case \in ModelCases, missing \in MissingColumns :
         /\ call' = [fn |-> "plot_cumulative_error_distribution",
                     df |-> ModelFrame(case, missing), predict |-> case.predict,
                     requested |-> <<"f1", "target">>]
         /\ out' = plot_cumulative_error_distribution(
                       case.predict, <<"f1">>, ModelFrame(case, missing), "target")

Call_residuals_vs_predicted ==
    /\ call.fn = "idle"
    /\ \E case \in ModelCases, missing \in MissingColumns :
         /\ call' = [fn |-> "plot_residuals_vs_predicted",
                     df |-> ModelFrame(case, missing), predict |-> case.predict,
                     requested |-> <<"f1", "target", "id">>]
         /\ out' = plot_residuals_vs_predicted(
                       case.predict, <<"f1">>, ModelFrame(case, missing), "target", "id")

Call_actual_vs_predicted ==
    /\ call.fn = "idle"
    /\ \E case \in ModelCases, missing \in MissingColumns :
         /\ call' = [fn |-> "plot_actual_vs_predicted_scatter",
                     df |-> ModelFrame(case, missing), predict |-> case.predict,
                     requested |-> <<"f1", "target", "id">>]
         /\ out' = plot_actual_vs_predicted_scatter(
                       case.predict, <<"f1">>, ModelFrame(case, missing), "target", "id")

(* ------------------- model against actual, by id ---------------------- *)

\* str(n) of a non-negative integer, digit by digit
RECURSIVE Digits(_)
Digits(n) == IF n < 10 THEN <<n>> ELSE Append(Digits(n \div 10), n % 10)

\* a < b for strings of digits: Python's order of str
StrLt(a, b) ==
    \E k \in 1..(Len(a) + 1) :
        /\ \A j \in 1..(k - 1) : j <= Len(b) /\ a[j] = b[j]
        /\ k <= Len(b)
        /\ (k > Len(a) \/ a[k] < b[k])

\* the rows in the order of their ids as numbers
id_order_numeric(ids) == Argsort(ids)

\* df[id_col].astype(str), then df.sort_values(by=id_col): the positions of
\* the rows in ascending order of str(id), equal ids in row order
RECURSIVE id_order_from(_, _)
id_order_from(ids, S) ==
    IF S = {} THEN <<>>
    ELSE LET m == CHOOSE i \in S :
                    \A j \in S : \/ StrLt(Digits(ids[i]), Digits(ids[j]))
                                 \/ (ids[i] = ids[j] /\ i <= j)
         IN  <<m>> \o id_order_from(ids, S \ {m})

id_order(ids) == id_order_from(ids, 1..Len(ids))

\* predict gives the prediction of each row of data, in the rows' order as passed
plot_model_vs_actual_timeseries_with_hover(predict, feature_names, data, target_name, id_col) ==
    IF ~HasColumn(data, id_col) THEN Raise("KeyError", <<"copy">>)
    ELSE IF ~HasColumns(data, feature_names) THEN Raise("KeyError", <<"copy", "sort">>)
    ELSE IF ~HasColumn(data, target_name)
    THEN Raise("KeyError", <<"copy", "sort", "features">>)
    ELSE LET order == id_order(data.cols[id_col])
             x_vals == [i \in 1..data.n |-> ToString(data.cols[id_col][order[i]])]
             y_true == [i \in 1..data.n |-> data.cols[target_name][order[i]]]
             y_pred == [i \in 1..data.n |-> predict[order[i]]]
             hover_texts == [i \in 1..data.n |->
                               [id |-> x_vals[i], actual |-> y_true[i],
                                predicted |-> y_pred[i],
                                features |-> [k \in 1..Len(feature_names) |->
                                                <<feature_names[k],
                                                  data.cols[feature_names[k]][order[i]]>>]]]
         IN  [err |-> "",
              steps |-> <<"copy", "sort", "features", "target", "predict", "hover",
                          "figure">>,
              actual |-> [x |-> x_vals, y |-> y_true, hovertext |-> hover_texts],
              predicted |-> [x |-> x_vals, y |-> y_pred, hovertext |-> hover_texts]]

\* observation ids: of one digit and of two
Ids == {1, 2, 10}

\* two fitted models: the feature itself, and its reflection
predict_of(kind, f1) == [i \in 1..Len(f1) |-> IF kind = "same" THEN f1[i] ELSE MaxVal - f1[i]]

\* the frames drawn: any ids, any feature values, the target set by the row
SeriesFrame(ids, f1, missing) ==
    [n |-> Len(ids),
     cols |-> [k \in ModelColumns \ missing |->
                 IF k = "f1" THEN f1
                 ELSE IF k = "target" THEN [i \in 1..Len(ids) |-> i % (MaxVal + 1)]
                 ELSE ids]]

Call_model_timeseries ==
    /\ call.fn = "idle"
    /\ \E n \in 1..MaxRows, missing \in MissingColumns, kind \in {"same", "reflected"} :
         \E ids \in [1..n -> Ids], f1 \in [1..n -> Values] :
           /\ call' = [fn |-> "plot_model_vs_actual_timeseries_with_hover",
                       df |-> SeriesFrame(ids, f1, missing),
                       predict |-> predict_of(kind, f1),
                       requested |-> <<"f1", "target", "id">>]
           /\ out' = plot_model_vs_actual_timeseries_with_hover(
                         predict_of(kind, f1), <<"f1">>, SeriesFrame(ids, f1, missing),
                         "target", "id")

NextModel ==
    Call_cumulative_error \/ Call_residuals_vs_predicted
    \/ Call_actual_vs_predicted \/ Call_model_timeseries \/ Return

\* the residual charts of a fitted model
SpecModel == Init /\ [][NextModel]_vars

(* --------------------------------- ECDF ------------------------------- *)

\* the columns of a frame in the order the frame holds them
ColumnOrder == <<"v", "w">>

\* data.columns: as listed when the frame carries its column names, else
\* the columns it has in that order
ColumnsOf(data) ==
    IF "columns" \in DOMAIN data THEN data.columns
    ELSE SelectSeq(ColumnOrder, LAMBDA k : HasColumn(data, k))

\* DataFrame.size: rows times columns
FrameSize(data) == data.n * Len(ColumnsOf(data))

\* the frame as an array: one entry per row, holding that row's cells
FrameRows(data) ==
    [i \in 1..data.n |-> [j \in 1..Len(ColumnsOf(data)) |-> data.cols[ColumnsOf(data)[j]][i]]]

\* numeric_col is None (the default) or Some(name). The sorted values of
\* the column are computed and then not used: the trace is drawn over the
\* frame itself, against data.size levels
plot_ecdf(data, numeric_col) ==
    IF IsNone(numeric_col) \/ ~HasColumn(data, Val(numeric_col))
    THEN Raise("KeyError", <<"copy">>)
    ELSE LET df == np_sort(Dropna(data.cols[Val(numeric_col)]))
             n == FrameSize(data)
             y == ecdf_levels(n)
         IN  [err |-> "",
              steps |-> <<"copy", "sort", "levels", "figure">>,
              x |-> FrameRows(data),
              y |-> y]

\* frames with a column v to plot, another column w, or both
EcdfFrames(n) ==
    LET V == [1..n -> Cells]
        w == [i \in 1..n |-> Some(i)]
    IN  {[n |-> n, cols |-> [k \in {"v", "w"} |-> IF k = "v" THEN v ELSE w]] : v \in V}
        \cup {[n |-> n, cols |-> [k \in {"v"} |-> v]] : v \in V}
        \cup {[n |-> n, cols |-> [k \in {"w"} |-> w]]}

Call_ecdf ==
    /\ call.fn = "idle"
    /\ \E n \in 0..MaxRows, numeric_col \in {None, Some("v")} :
         \E data \in EcdfFrames(n) :
           /\ call' = [fn |-> "plot_ecdf", df |-> data, numeric_col |-> numeric_col,
                       requested |-> numeric_col]
           /\ out' = plot_ecdf(data, numeric_col)


NextStd == Call_heatmap \/ Call_run_chart \/ Call_ecdf \/ Return

\* the standard charts and the run chart
SpecStd == Init /\ [][NextStd]_vars

(* -------------------------- partial dependence ------------------------ *)
\* the cells of these frames are numbers; model stands for what
\* model.predict gives back on a frame: a weighted sum of each row's cells,
\* model giving the weight of each column

MaxPdpRows == 2

MaxGrid == 3

MaxRowCount == 5200

\* the feature columns a frame may have, in frame order
PdpColumns == <<"f1", "f2">>

\* the same number of points whatever the number of rows
get_optimal_grid_points_flat(n_rows) == 10

get_optimal_grid_points(n_rows) ==
    IF n_rows < 200 THEN 10
    ELSE IF n_rows < 500 THEN 15
    ELSE IF n_rows < 1000 THEN 20
    ELSE IF n_rows < 5000 THEN 25
    ELSE 30

\* Series.min() and Series.max() of a column of numbers (NaN over nothing)
col_min(col) ==
    IF Len(col) = 0 THEN NaN
    ELSE CHOOSE m \in {col[i] : i \in 1..Len(col)} :
             \A i \in 1..Len(col) : NLe(m, col[i])

col_max(col) ==
    IF Len(col) = 0 THEN NaN
    ELSE CHOOSE m \in {col[i] : i \in 1..Len(col)} :
             \A i \in 1..Len(col) : NLe(col[i], m)

\* np.linspace(start, stop, num) for num >= 0: num evenly spaced points from
\* start, the last of them stop when there are two or more
linspace(start, stop, num) ==
    IF num = 1 THEN <<start>>
    ELSE [i \in 1..num |->
            NAdd(start, NScale(Rat(i - 1, num - 1), NSub(stop, start)))]

\* temp_data after temp_data[feature] = val
sweep(temp_data, feature, val) ==
    [temp_data EXCEPT !.cols[feature] = Repeat(val, temp_data.n)]

\* the assignment lands in the caller's frame
caller_frame_aliased(data, temp_data) == temp_data

\* the caller's frame once a copy of it has been assigned to
caller_frame(data, temp_data) == data

\* model.predict(pool): one prediction per row
predict_rows(model, pool) ==
    LET columns == SelectSeq(PdpColumns, LAMBDA k : HasColumn(pool, k))
    IN  [i \in 1..pool.n |->
           SumNums([j \in 1..Len(columns) |->
                      NScale(RInt(model[columns[j]]), pool.cols[columns[j]][i])])]

\* the sum of s[lo..hi], halves first
RECURSIVE SumRange(_, _, _)
SumRange(s, lo, hi) ==
    IF lo > hi THEN Num(RZero)
    ELSE IF lo = hi THEN s[lo]
    ELSE NAdd(SumRange(s, lo, (lo + hi) \div 2), SumRange(s, (lo + hi) \div 2 + 1, hi))

\* preds.mean(): NaN over nothing
preds_mean(preds) ==
    IF Len(preds) = 0 THEN NaN
    ELSE NScale(Rat(1, Len(preds)), SumRange(preds, 1, Len(preds)))

\* the inner loop from grid position i on: the frames predicted on, the
\* mean predictions, and the caller's frame afterwards
RECURSIVE pdp_sweep(_, _, _, _, _)
pdp_sweep(model, data, feature, grid, i) ==
    IF i > Len(grid) THEN [data |-> data, pools |-> <<>>, predictions |-> <<>>]
    ELSE LET temp_data == sweep(data, feature, grid[i])
             preds == Listed(predict_rows(model, temp_data))
             rest == pdp_sweep(model, caller_frame(data, temp_data), feature, grid, i + 1)
         IN  [data |-> rest.data,
              pools |-> <<temp_data>> \o rest.pools,
              predictions |-> <<preds_mean(preds)>> \o rest.predictions]

\* the outer loop from entry j of features on
RECURSIVE pdp_features(_, _, _, _, _, _)
pdp_features(model, data, features, grid_points, j, traces) ==
    IF j > Len(features)
    THEN [err |-> "", steps |-> features \o <<"figure">>, grid_points |-> grid_points,
          traces |-> traces, data |-> data]
    ELSE IF ~HasColumn(data, features[j]) \/ grid_points < 0
    THEN [err |-> "ValueError", steps |-> SubSeq(features, 1, j - 1),
          grid_points |-> grid_points, data |-> data]
    ELSE LET feature == features[j]
             grid == linspace(col_min(data.cols[feature]), col_max(data.cols[feature]),
                              grid_points)
             swept == pdp_sweep(model, data, feature, grid, 1)
         IN  pdp_features(model, swept.data, features, grid_points, j + 1,
                          Append(traces, [name |-> feature, x |-> grid,
                                          y |-> swept.predictions,
                                          pools |-> swept.pools]))

\* grid_points is None (the default) or Some(number)
plot_pdp_catboost(model, data, features, grid_points) ==
    pdp_features(model, data, features,
                 IF IsNone(grid_points) THEN get_optimal_grid_points(data.n)
                 ELSE Val(grid_points),
                 1, <<>>)

PdpCells == {Num(RInt(v)) : v \in Values}

\* a frame of 200 rows, the first size of the second band
TallFrame == [n |-> 200, cols |-> [k \in {"f1"} |-> [i \in 1..200 |-> Num(RInt(i % 2))]]]

\* features: in frame order, reversed, one twice, and with a name no frame has
PdpRequests ==
    {<<>>, <<"f1">>, <<"f1", "f2">>, <<"f2", "f1">>, <<"f1", "f1">>, <<"f1", "zz">>}

GridPoints == {None} \cup {Some(g) : g \in (0 - 1)..MaxGrid}

\* two fitted models: the sum of the features, and twice the first less the second
Models == {[k \in {"f1", "f2"} |-> 1],
           [k \in {"f1", "f2"} |-> IF k = "f1" THEN 2 ELSE 0 - 1]}

Call_pdp ==
    /\ call.fn = "idle"
    /\ \E n \in 1..MaxPdpRows, features \in PdpRequests, grid_points \in GridPoints,
          model \in Models :
         \E data \in FramesOf({"f1", "f2"}, n, PdpCells) :
           /\ call' = [fn |-> "plot_pdp_catboost", model |-> model, df |-> data,
                       requested |-> features, grid_points |-> grid_points]
           /\ out' = plot_pdp_catboost(model, data, features, grid_points)

Call_pdp_tall ==
    /\ call.fn = "idle"
    /\ \E model \in Models :
         /\ call' = [fn |-> "plot_pdp_catboost", model |-> model, df |-> TallFrame,
                     requested |-> <<"f1">>, grid_points |-> None]
         /\ out' = plot_pdp_catboost(model, TallFrame, <<"f1">>, None)

Call_get_optimal_grid_points ==
    /\ call.fn = "idle"
    /\ \E n_rows \in 0..MaxRowCount :
         /\ call' = [fn |-> "get_optimal_grid_points", n_rows |-> n_rows]
         /\ out' = [err |-> "", steps |-> <<>>, value |-> get_optimal_grid_points(n_rows)]

NextPdp == Call_pdp \/ Call_pdp_tall \/ Call_get_optimal_grid_points \/ Return

\* partial dependence and its default grid size
SpecPdp == Init /\ [][NextPdp]_vars

NextFrames == NextStd \/ NextModel \/ NextPdp

\* every chart function that reads named columns of a frame
SpecFrames == Init /\ [][NextFrames]_vars

(* ---------------------------- SHAP summary ---------------------------- *)
\* shap_values.values is a matrix: one row per row of data, one attribution
\* per feature.

\* pandas head(n): the first n entries, or all but the last -n when n < 0
head(s, n) ==
    IF n >= 0 THEN SubSeq(s, 1, IF n < Len(s) THEN n ELSE Len(s))
    ELSE SubSeq(s, 1, IF Len(s) + n > 0 THEN Len(s) + n ELSE 0)

\* the positions of keys (rationals) in descending order of key, equal keys
\* in position order: sort_values(ascending=False)
RECURSIVE sort_values_desc_from(_, _)
sort_values_desc_from(keys, S) ==
    IF S = {} THEN <<>>
    ELSE LET m == CHOOSE i \in S :
                    \A j \in S : RLt(keys[j], keys[i]) \/ (keys[i] = keys[j] /\ i <= j)
         IN  <<m>> \o sort_values_desc_from(keys, S \ {m})

sort_values_desc(keys) == sort_values_desc_from(keys, 1..Len(keys))

\* the column means without the absolute value
mean_abs_shap_signed(shap) ==
    [f \in 1..NumFeatures |->
       Rat(SumInts([r \in 1..Len(shap) |-> shap[r][f]]), Len(shap))]

\* shap_df.abs().mean(): per feature, the mean over the rows of |attribution|
mean_abs_shap(shap) ==
    [f \in 1..NumFeatures |->
       Rat(SumInts([r \in 1..Len(shap) |-> Abs(shap[r][f])]), Len(shap))]

\* melt: one entry per (feature, row), feature by feature, rows in order,
\* with the feature value of the same position beside it
melt(shap) ==
    [k \in 1..(NumFeatures * Len(shap)) |->
       LET f == ((k - 1) \div Len(shap)) + 1
           r == ((k - 1) % Len(shap)) + 1
       IN  [feature |-> FeatureNames[f], shap |-> shap[r][f],
            value |-> RowData(r - 1)[f]]]

plot_shap_summary_catboost(shap, max_display) ==
    LET order == sort_values_desc(mean_abs_shap(shap))
        top == head(order, max_display)
        top_features == {FeatureNames[top[i]] : i \in 1..Len(top)}
    IN  [err |-> "", steps |-> <<"explain", "figure">>,
         points |-> SelectSeq(melt(shap), LAMBDA p : p.feature \in top_features)]

\* the attribution matrices drawn: any vector for row 0, and every later row
\* that vector rotated once more by a fixed shift, with or without its sign
\* changed
ShapMatrices(rows) ==
    {[r \in 1..rows |->
        IF r = 1 THEN v
        ELSE [f \in 1..NumFeatures |-> sgn * Rotate(v, shift * (r - 1))[f]]] :
        v \in [1..NumFeatures -> (0 - MaxAttr)..MaxAttr],
        shift \in 0..(NumFeatures - 1), sgn \in {1, 0 - 1}}

\* max_display and top_n: below none, none, some, all, and more than all
DisplayCounts == (0 - 1)..(NumFeatures + 1)

Call_shap_summary ==
    /\ call.fn = "idle"
    /\ \E rows \in 1..MaxShapRows :
         \E shap \in ShapMatrices(rows), max_display \in DisplayCounts :
           /\ call' = [fn |-> "plot_shap_summary_catboost", shap |-> shap,
                       max_display |-> max_display]
           /\ out' = plot_shap_summary_catboost(shap, max_display)

(* ------------------- feature importance and interaction --------------- *)
\* model.get_feature_importance(...) is the model's own routine: what it
\* returns is drawn.  A table is a sequence of rows in frame order.

MaxScore == 2

\* sort_values(by=column, ascending=True).head(top_n)
sort_and_head_ascending(rows, scores, top_n) ==
    LET order == sort_values_desc([i \in 1..Len(rows) |-> RNeg(RInt(scores[i]))])
        kept == head(order, top_n)
    IN  [i \in 1..Len(kept) |-> rows[kept[i]]]

\* sort_values(by=column, ascending=False).head(top_n): scores is the column
sort_and_head(rows, scores, top_n) ==
    LET order == sort_values_desc([i \in 1..Len(rows) |-> RInt(scores[i])])
        kept == head(order, top_n)
    IN  [i \in 1..Len(kept) |-> rows[kept[i]]]

\* pd.DataFrame({'Feature': feature_names, 'Importance': importances}):
\* columns of unequal length are refused
importance_df(feature_names, importances) ==
    [i \in 1..Len(importances) |->
       [feature |-> feature_names[i], importance |-> importances[i]]]

plot_feature_importance_catboost(importances, top_n) ==
    IF Len(FeatureNames) # Len(importances) THEN Raise("ValueError", <<"importance">>)
    ELSE [err |-> "", steps |-> <<"importance", "figure">>,
          bars |-> sort_and_head(importance_df(FeatureNames, importances),
                                 importances, top_n)]

\* [f'Feature {i}' for i in range(len(importances))]
default_feature_names(importances) ==
    [i \in 1..Len(importances) |-> "Feature " \o ToString(i - 1)]

plot_catboost_global_explanations(importances, feature_names, top_n) ==
    LET names == IF IsNone(feature_names) THEN default_feature_names(importances)
                 ELSE Val(feature_names)
    IN  IF Len(names) # Len(importances) THEN Raise("ValueError", <<"importance">>)
        ELSE [err |-> "", steps |-> <<"importance", "figure">>,
              bars |-> sort_and_head(importance_df(names, importances),
                                     importances, top_n)]

\* Series.quantile(q) with linear interpolation, q = hundredths / 100
quantile(strengths, hundredths) ==
    IF Len(strengths) = 0 THEN NaN
    ELSE LET sorted == np_sort(strengths)
             pos == Rat((Len(strengths) - 1) * hundredths, 100)
             lo == pos[1] \div pos[2]
             frac == RSub(pos, RInt(lo))
         IN  IF lo + 1 >= Len(strengths) THEN Num(RInt(sorted[lo + 1]))
             ELSE Num(RAdd(RInt(sorted[lo + 1]),
                           RMul(frac, RInt(sorted[lo + 2] - sorted[lo + 1]))))

\* categorize_strength under the thresholds of the rows kept
strength_category(val, low_thresh, high_thresh) ==
    IF NLe(val, low_thresh) THEN "Low (Orange)"
    ELSE IF NLe(val, high_thresh) THEN "Medium (Green)"
    ELSE "High (Red)"

plot_feature_interactions_catboost(interactions, top_n) ==
    LET named == [i \in 1..Len(interactions) |->
                    [feature1 |-> FeatureNames[interactions[i][1] + 1],
                     feature2 |-> FeatureNames[interactions[i][2] + 1],
                     strength |-> interactions[i][3]]]
        kept == sort_and_head(named, [i \in 1..Len(named) |-> named[i].strength], top_n)
        strengths == [i \in 1..Len(kept) |-> kept[i].strength]
        flat == Cardinality({strengths[i] : i \in 1..Len(kept)}) = 1
        low_thresh == IF flat THEN Num(RInt(strengths[1])) ELSE quantile(strengths, 33)
        high_thresh == IF flat THEN Num(RInt(strengths[1])) ELSE quantile(strengths, 66)
    IN  [err |-> "", steps |-> <<"interaction", "figure">>,
         points |-> [i \in 1..Len(kept) |->
                       [feature1 |-> kept[i].feature1, feature2 |-> kept[i].feature2,
                        strength |-> kept[i].strength,
                        category |-> strength_category(Num(RInt(strengths[i])),
                                                       low_thresh, high_thresh)]]]

\* the importances drawn: one score per feature
Importances == [1..NumFeatures -> 0..MaxScore]

\* feature_names: None (the default), the names of the features, one name only
NameLists == {None, Some(FeatureNames), Some(<<"f1">>)}

\* the feature pairs, by 0-based position
FeaturePairs == <<<<0, 1>>, <<0, 2>>, <<1, 2>>>>

\* the interaction tables drawn: the first k pairs, in any rotation, each
\* with any strength
Interactions ==
    {[i \in 1..k |-> <<Rotate(FeaturePairs, shift)[i][1],
                       Rotate(FeaturePairs, shift)[i][2], s[i]>>] :
        k \in 0..Len(FeaturePairs), shift \in 0..(Len(FeaturePairs) - 1),
        s \in [1..Len(FeaturePairs) -> 0..MaxScore]}

Call_feature_importance ==
    /\ call.fn = "idle"
    /\ \E importances \in Importances, top_n \in DisplayCounts :
         /\ call' = [fn |-> "plot_feature_importance_catboost",
                     importances |-> importances, top_n |-> top_n]
         /\ out' = plot_feature_importance_catboost(importances, top_n)

Call_global_explanations ==
    /\ call.fn = "idle"
    /\ \E importances \in Importances, feature_names \in NameLists,
          top_n \in DisplayCounts :
         /\ call' = [fn |-> "plot_catboost_global_explanations",
                     importances |-> importances, feature_names |-> feature_names,
                     top_n |-> top_n]
         /\ out' = plot_catboost_global_explanations(importances, feature_names, top_n)

Call_feature_interactions ==
    /\ call.fn = "idle"
    /\ \E interactions \in Interactions, top_n \in DisplayCounts :
         /\ call' = [fn |-> "plot_feature_interactions_catboost",
                     interactions |-> interactions, top_n |-> top_n]
         /\ out' = plot_feature_interactions_catboost(interactions, top_n)

NextRank ==
    \/ Call_shap_summary
    \/ Call_feature_importance
    \/ Call_global_explanations
    \/ Call_feature_interactions
    \/ Return

\* the charts that rank features: SHAP summary, importance, interaction
SpecRank == Init /\ [][NextRank]_vars

(* ------------------------------ T2 chart ------------------------------ *)
\* Hotelling's T2 of the rows of numeric_columns.  The statistics are exact
\* here; scipy's f.ppf is an external routine whose value is drawn.

\* df[numeric_columns].dropna(): the positions (1-based) of the rows with a
\* value in every one of the columns
complete_rows(df, numeric_columns) ==
    SelectSeq([i \in 1..df.n |-> i],
              LAMBDA i : \A k \in 1..Len(numeric_columns) :
                            ~IsNone(df.cols[numeric_columns[k]][i]))

\* every row, complete or not
complete_rows_all(df, numeric_columns) == [i \in 1..df.n |-> i]

\* np.nanmean(X, axis=0) of one column of X
t2_mean(xs) == Rat(SumInts(xs), Len(xs))

\* one entry of np.cov(X, rowvar=False): NaN for a single row
t2_cov(xs, ys) ==
    IF Len(xs) < 2 THEN NaN
    ELSE Num(RDiv(SumRats([i \in 1..Len(xs) |->
                             RMul(RSub(RInt(xs[i]), t2_mean(xs)),
                                  RSub(RInt(ys[i]), t2_mean(ys)))]),
                  RInt(Len(xs) - 1)))

\* diff @ S_inv @ diff.T for two columns, S = [[s11, s12], [s12, s22]]
t2_statistic(d1, d2, s11, s12, s22) ==
    IF s11.nan \/ s12.nan \/ s22.nan THEN NaN
    ELSE LET det == RSub(RMul(s11.a, s22.a), RMul(s12.a, s12.a))
         IN  Num(RDiv(RAdd(RSub(RMul(RMul(d1, d1), s22.a),
                                RMul(RInt(2), RMul(RMul(d1, d2), s12.a))),
                           RMul(RMul(d2, d2), s11.a)),
                      det))

\* (p * (n - 1) * (n + 1) / (n * (n - p))) * f.ppf(1 - alpha, p, n - p), for
\* n * (n - p) # 0: f.ppf is NaN unless n - p > 0
t2_ucl(n, p, fq) ==
    IF n - p > 0 THEN Num(RMul(Rat(p * (n - 1) * (n + 1), n * (n - p)), Rat(fq[1], fq[2])))
    ELSE NaN

\* labels taken from the row positions, whatever columns the frame has
material_labels_from_index(df) == Some([i \in 1..df.n |-> ToString(i - 1)])

\* df['material_salida'].astype(str).values: None stands for the KeyError
\* of a frame without that column
material_labels(df) ==
    IF HasColumn(df, "material_salida") THEN Some(df.cols["material_salida"]) ELSE None

\* d.get(key, default): the value read, and the dict the caller still holds
\* once the read is over (get adds no key, where setdefault would)
dict_get(d, key, default) ==
    [value |-> IF key \in DOMAIN d THEN d[key] ELSE default, held |-> d]

\* d[key], for a key the dict has
dict_item(d, key) == [value |-> d[key], held |-> d]

\* go.Scatter(line=d): plotly validates d into an object of its own; the
\* trace carries d's items and the dict is left as it was
scatter_line(d) == [value |-> d, held |-> d]

\* the default-argument objects made when the function is defined,
\* t2_chart.py lines 18-21
T2Style ==
    [UCL_line |-> [color |-> "red", dash |-> "dash"],
     T2_line |-> [color |-> "orange", dash |-> "solid"],
     T2_marker |-> [color |-> "blue"],
     outlier_marker |-> [color |-> "red", size |-> 8]]

\* the four style dicts once a call that reached the figure is over
t2_style_after(style) ==
    [UCL_line |-> scatter_line(style.UCL_line).held,
     T2_line |-> scatter_line(style.T2_line).held,
     T2_marker |-> dict_get(dict_item(style.T2_marker, "color").held, "size", 6).held,
     outlier_marker |->
         dict_get(dict_item(style.outlier_marker, "color").held, "size", 8).held]

plot_t2_chart(df, numeric_columns, fq, style) ==
    LET kept == complete_rows(df, numeric_columns)
        labels == material_labels(df)
        n == Len(kept)
        p == Len(numeric_columns)
        X(k) == [i \in 1..n |-> Val(df.cols[numeric_columns[k]][kept[i]])]
        s11 == t2_cov(X(1), X(1))
        s12 == t2_cov(X(1), X(2))
        s22 == t2_cov(X(2), X(2))
        singular == ~s11.nan /\ RMul(s11.a, s22.a) = RMul(s12.a, s12.a)
        T2 == Listed([i \in 1..n |->
                        t2_statistic(RSub(RInt(X(1)[i]), t2_mean(X(1))),
                                     RSub(RInt(X(2)[i]), t2_mean(X(2))),
                                     s11, s12, s22)])
    IN  IF IsNone(labels)
        THEN Raise("KeyError", <<"copy", "complete_rows">>)
        ELSE IF p = 1 \/ singular
        THEN Raise("LinAlgError", <<"copy", "complete_rows", "labels", "covariance">>)
        ELSE IF n > 0 /\ n * (n - p) = 0
        THEN Raise("ZeroDivisionError",
                   <<"copy", "complete_rows", "labels", "covariance", "inverse", "t2">>)
        ELSE IF n # df.n
        THEN Raise("ValueError",
                   <<"copy", "complete_rows", "labels", "covariance", "inverse", "t2">>)
        ELSE IF n = 0
        THEN Raise("ZeroDivisionError",
                   <<"copy", "complete_rows", "labels", "covariance", "inverse", "t2",
                     "table", "values">>)
        ELSE [err |-> "",
              steps |-> <<"copy", "complete_rows", "labels", "covariance", "inverse",
                          "t2", "table", "values", "ucl", "hover", "figure">>,
              x |-> Val(labels),
              y |-> T2,
              is_outlier |-> [i \in 1..n |-> NLt(t2_ucl(n, p, fq), T2[i])],
              marker_color |->
                  [i \in 1..n |->
                     IF NLt(t2_ucl(n, p, fq), T2[i])
                     THEN dict_item(style.outlier_marker, "color").value
                     ELSE dict_item(style.T2_marker, "color").value],
              marker_size |->
                  [i \in 1..n |->
                     IF NLt(t2_ucl(n, p, fq), T2[i])
                     THEN dict_get(style.outlier_marker, "size", 8).value
                     ELSE dict_get(style.T2_marker, "size", 6).value],
              line |-> scatter_line(style.T2_line).value,
              ucl_line |-> scatter_line(style.UCL_line).value,
              hovertext |-> [i \in 1..n |->
                               [index |-> Val(labels)[i],
                                t2 |-> T2[i],
                                values |-> [k \in 1..p |->
                                              Val(df.cols[numeric_columns[k]][i])]]],
              ucl |-> Repeat(t2_ucl(n, p, fq), n)]

\* the label of the row at position i
MaterialLabel(i) == "m" \o ToString(i)

\* a frame of the two measurement columns given, with or without the column
\* 'material_salida'
T2Frame(c1, c2, material) ==
    [n |-> Len(c1),
     cols |-> IF material
              THEN [k \in {"c1", "c2", "material_salida"} |->
                      IF k = "c1" THEN c1 ELSE IF k = "c2" THEN c2
                      ELSE [i \in 1..Len(c1) |-> MaterialLabel(i)]]
              ELSE [k \in {"c1", "c2"} |-> IF k = "c1" THEN c1 ELSE c2]]

\* s with v put in before position i
InsertAt(s, i, v) == SubSeq(s, 1, i - 1) \o <<v>> \o SubSeq(s, i, Len(s))

\* the measurement columns drawn: up to two rows of any cells; four rows
\* without a missing cell; and those four with a fifth row put in anywhere
\* that misses one cell or both
T2Columns ==
    UNION {[1..n -> Cells] \X [1..n -> Cells] : n \in 0..2}
    \cup {<<[i \in 1..4 |-> Some(a[i])], [i \in 1..4 |-> Some(b[i])]>> :
            a \in {<<0, 1, 0, 1>>, <<0, 0, 1, 1>>}, b \in [1..4 -> Values]}
    \cup {<<InsertAt([i \in 1..4 |-> Some(a[i])], at, gap[1]),
            InsertAt([i \in 1..4 |-> Some(b[i])], at, gap[2])>> :
            a \in {<<0, 1, 0, 1>>, <<0, 0, 1, 1>>}, b \in [1..4 -> Values],
            at \in 1..5, gap \in {<<None, Some(0)>>, <<Some(1), None>>, <<None, None>>}}

\* numeric_columns: both columns in either order, or one alone
NumericColumns == {<<"c1", "c2">>, <<"c2", "c1">>, <<"c1">>}

\* what f.ppf returns when both degrees of freedom are positive, as a
\* fraction: 1/9 and 19 are the quantiles of F(2, 2) at 0.1 and 0.95
FQuantiles == {<<1, 9>>, <<19, 1>>}

Call_t2_chart ==
    /\ call.fn = "idle"
    /\ \E c \in T2Columns, material \in BOOLEAN, numeric_columns \in NumericColumns,
          fq \in FQuantiles :
         /\ call' = [fn |-> "plot_t2_chart", df |-> T2Frame(c[1], c[2], material),
                     requested |-> numeric_columns, fq |-> fq, style |-> T2Style]
         /\ out' = plot_t2_chart(T2Frame(c[1], c[2], material), numeric_columns, fq,
                                 T2Style)

NextMaterial == Call_u_chart \/ Call_t2_chart \/ Return

\* the two charts that label their points with the column 'material_salida'
SpecMaterial == Init /\ [][NextMaterial]_vars

(* ------------------------- boxplot and histogram ---------------------- *)
\* plotly express draws one trace per value of the colour column, in the
\* order the values first appear; a trace holds its rows in row order

\* the positions of the rows that hold a value no earlier row holds
first_rows(s) ==
    SelectSeq([i \in 1..Len(s) |-> i], LAMBDA i : \A j \in 1..(i - 1) : s[j] # s[i])

\* the positions of the rows that hold v
rows_with(s, v) == SelectSeq([i \in 1..Len(s) |-> i], LAMBDA i : s[i] = v)

\* df[col].astype(str)
astype_str(cells) == [i \in 1..Len(cells) |-> ToString(cells[i])]

\* the rows of each group: one group of all rows without a colour column
colour_groups(data, categorical_col) ==
    IF IsNone(categorical_col)
    THEN << [name |-> "", rows |-> [i \in 1..data.n |-> i]] >>
    ELSE LET text == astype_str(data.cols[Val(categorical_col)])
             firsts == first_rows(text)
         IN  [g \in 1..Len(firsts) |->
                [name |-> text[firsts[g]], rows |-> rows_with(text, text[firsts[g]])]]

\* categorical_col is None (the default) or Some(name)
plot_boxplot(data, numeric_col, categorical_col) ==
    IF ~IsNone(categorical_col) /\ ~HasColumn(data, Val(categorical_col))
    THEN Raise("KeyError", <<"copy">>)
    ELSE IF ~HasColumn(data, numeric_col)
    THEN Raise("ValueError", <<"copy", "categories">>)
    ELSE LET groups == colour_groups(data, categorical_col)
         IN  [err |-> "",
              steps |-> <<"copy", "categories", "figure">>,
              traces |-> [g \in 1..Len(groups) |->
                            [name |-> groups[g].name,
                             x |-> IF IsNone(categorical_col) THEN None
                                   ELSE Some(Repeat(groups[g].name, Len(groups[g].rows))),
                             y |-> [i \in 1..Len(groups[g].rows) |->
                                      data.cols[numeric_col][groups[g].rows[i]]]]],
              xaxis_title |-> IF IsNone(categorical_col) THEN ""
                              ELSE Val(categorical_col),
              yaxis_title |-> numeric_col]

plot_histogram(df, numeric_col, categorical_col, bins) ==
    IF ~IsNone(categorical_col) /\ ~HasColumn(df, Val(categorical_col))
    THEN Raise("KeyError", <<"copy">>)
    ELSE IF ~HasColumn(df, numeric_col)
    THEN Raise("ValueError", <<"copy", "categories">>)
    ELSE LET groups == colour_groups(df, categorical_col)
         IN  [err |-> "",
              steps |-> <<"copy", "categories", "figure">>,
              traces |-> [g \in 1..Len(groups) |->
                            [name |-> groups[g].name,
                             x |-> [i \in 1..Len(groups[g].rows) |->
                                      df.cols[numeric_col][groups[g].rows[i]]]]],
              nbins |-> bins,
              xaxis_title |-> numeric_col,
              yaxis_title |-> "Count"]

(* ------------------- a caller's dataset across calls ------------------ *)
\* A caller builds one dataset and passes the same object to one chart
\* function after another.  Every function that assigns to the frame first
\* rebinds its parameter to a copy (df = df.copy()), so the assignments land
\* on the copy; caller_frame gives the object the caller holds afterwards.
\* The frame carries its row labels, its column names in order, the cells of
\* each column and the names of the columns whose cells are held as text.
\* The default-argument objects are made once, when the functions are
\* defined, and every call that leaves the argument out is handed the same
\* object.

\* different calls made in one session; each may be repeated at any time
MaxCalls == 2

\* df[name] = cells
with_column(df, name, cells) ==
    [df EXCEPT !.columns = IF HasColumn(df, name) THEN df.columns
                           ELSE Append(df.columns, name),
               !.cols = [k \in (DOMAIN df.cols) \cup {name} |->
                           IF k = name THEN cells ELSE df.cols[k]]]

\* the rows of df in the order given (positions, 1-based), labels moved with them
take(df, order) ==
    [df EXCEPT !.index = [i \in 1..df.n |-> df.index[order[i]]],
               !.cols = [k \in DOMAIN df.cols |->
                           [i \in 1..df.n |-> df.cols[k][order[i]]]]]

\* df[name] = df[name].astype(str): the column is held as text from then on
with_text_column(df, name) == [df EXCEPT !.strs = df.strs \cup {name}]

\* c_chart.py lines 27-28: the function's frame when it returns
c_chart_frame(df, column, lower_spec, upper_spec) ==
    with_column(df, "defect_count",
                [i \in 1..df.n |-> c_count_defects(df.cols[column][i],
                                                   lower_spec, upper_spec)])

\* np_chart.py lines 26-28
np_chart_frame(df, column, subgroup_size, lower_spec, upper_spec) ==
    with_column(with_column(df, "defective",
                            [i \in 1..df.n |-> is_defective(df.cols[column][i],
                                                            lower_spec, upper_spec)]),
                "subgroup", SubgroupOf(df.index, subgroup_size))

\* p_chart.py lines 27-31
p_chart_frame(df, column, subgroup_size, lower_spec, upper_spec) ==
    with_column(with_column(df, "defective",
                            [i \in 1..df.n |-> is_defective(df.cols[column][i],
                                                            lower_spec, upper_spec)]),
                "subgroup", SubgroupOf(df.index, subgroup_size))

\* u_chart.py lines 56-87: the columns assigned one after another; the last
\* needs the column 'material_salida'
u_chart_frame(df, column, sample_size_col, lower_spec, upper_spec) ==
    LET sizes == df.cols[sample_size_col]
        defect_count == [i \in 1..df.n |->
                           is_defective(df.cols[column][i], lower_spec, upper_spec)]
        u == [i \in 1..df.n |-> Rat(defect_count[i], sizes[i])]
        u_bar == IF SumInts(sizes) = 0 THEN NaN
                 ELSE Num(Rat(SumInts(defect_count), SumInts(sizes)))
        lim == Listed([i \in 1..df.n |-> u_limits(u_bar, sizes[i])])
        counted == with_column(with_column(with_column(df, "defect_count", defect_count),
                                           "sample_size", sizes), "u", u)
        limited == with_column(with_column(counted, "UCL",
                                           [i \in 1..df.n |-> lim[i].ucl]),
                               "LCL", [i \in 1..df.n |-> lim[i].lcl])
        flagged == with_column(limited, "out_of_control",
                               Listed([i \in 1..df.n |->
                                         u_out_of_control(u[i], lim[i].ucl, lim[i].lcl)]))
    IN  IF NoSpecLimit(lower_spec, upper_spec) THEN df
        ELSE IF ~HasColumn(df, "material_salida") THEN flagged
        ELSE with_column(flagged, "hover_text",
                         [i \in 1..df.n |->
                            <<df.index[i], df.cols[column][i],
                              df.cols["material_salida"][i]>>])

\* boxplot.py lines 15-18 and histograms.py lines 13-16
categorical_frame(df, categorical_col) ==
    IF IsNone(categorical_col) \/ ~HasColumn(df, Val(categorical_col)) THEN df
    ELSE with_text_column(df, Val(categorical_col))

\* model_predictions.py lines 34-36: ids turned to text, rows sorted by them
timeseries_frame(df, id_col) ==
    with_text_column(take(df, id_order(df.cols[id_col])), id_col)

\* the explainer, a black box of the model: one attribution per column of
\* the dataset, over a baseline of 1; here the feature for 'f1', the target
\* for 'target' and the feature negated for any other column
explainer(data) ==
    [base |-> [r \in 1..data.n |-> 1],
     values |-> [r \in 1..data.n |->
                   [k \in 1..Len(data.columns) |->
                      IF data.columns[k] = "f1" THEN data.cols["f1"][r]
                      ELSE IF data.columns[k] = "target" THEN data.cols["target"][r]
                      ELSE 0 - data.cols["f1"][r]]]]

\* the frame as the functions that skip missing cells read it: the cells of
\* the columns named are all present
present(df, names) ==
    [df EXCEPT !.cols = [k \in DOMAIN df.cols |->
                           IF k \in names THEN [i \in 1..df.n |-> Some(df.cols[k][i])]
                           ELSE df.cols[k]]]

\* the frame as plot_pdp_catboost reads it: the cells of the columns named
\* are numbers
numbers(df, names) ==
    [df EXCEPT !.cols = [k \in DOMAIN df.cols |->
                           IF k \in names THEN [i \in 1..df.n |-> Num(RInt(df.cols[k][i]))]
                           ELSE df.cols[k]]]

\* for idx in indices: the items the loop runs over, and the list the caller
\* still holds once the loop is over
for_each(indices) == [value |-> indices, held |-> indices]

\* the default-argument objects made when the functions are defined:
\* decision_plot.py line 8 and t2_chart.py lines 18-21
Defaults == [indices |-> <<0>>, style |-> T2Style]

\* the fitted model of the session's pdp call, and the frame it sweeps
PdpModel == [k \in {"f1", "f2"} |-> 1]

pdp_frame(data) == numbers(data, {"f1"})

\* the datasets a caller holds: four rows under the default row labels, ids
\* not in text order, a target of two levels and a feature that is or is not
\* a linear function of it
HeldIds == <<2, 10, 1, 3>>

HeldFeatures == {<<0, 1, 0, 1>>, <<1, 0, 0, 1>>, <<1, 1, 0, 0>>}

HeldFrame(f1) ==
    [n |-> 4, index |-> <<0, 1, 2, 3>>, strs |-> {},
     columns |-> <<"f1", "target", "id", "group", "material_salida">>,
     cols |-> [k \in {"f1", "target", "id", "group", "material_salida"} |->
                  IF k = "f1" THEN f1
                  ELSE IF k = "target" THEN <<0, 0, 1, 1>>
                  ELSE IF k = "id" THEN HeldIds
                  ELSE IF k = "group" THEN [i \in 1..4 |-> GroupLabel(i)]
                  ELSE [i \in 1..4 |-> MaterialLabel(i)]]]

HeldFrames == {HeldFrame(f1) : f1 \in HeldFeatures}

\* the caller builds a dataset; the functions' defaults are as defined
Caller_load ==
    /\ call.fn = "idle"
    /\ \E data \in HeldFrames :
         call' = [fn |-> "caller", first |-> data, data |-> data,
                  defaults |-> Defaults, made |-> <<>>, charts |-> <<>>, last |-> ""]
    /\ out' = NoOut

\* the positions in made of the call of fn, if it was made before
MadeAt(fn) == {i \in 1..Len(call.made) : call.made[i] = fn}

\* the caller calls fn on the dataset it holds: the call leaves a chart (or
\* an exception), the dataset object and the default-argument objects.
\* made lists the different calls in the order they were first made, charts
\* what each of them returned that first time, last is the call made now
Held(fn, chart, data, defaults) ==
    /\ call.fn = "caller"
    /\ MadeAt(fn) # {} \/ Len(call.made) < MaxCalls
    /\ call' = [call EXCEPT
                  !.data = data,
                  !.defaults = defaults,
                  !.made = IF MadeAt(fn) # {} THEN @ ELSE Append(@, fn),
                  !.charts = IF MadeAt(fn) # {} THEN @ ELSE Append(@, chart),
                  !.last = fn]
    /\ out' = chart

\* In every call below the measurement column is 'f1', the target 'target',
\* the ids, the times and the sample sizes 'id', the categories 'target';
\* indices and the T2 style dicts are left out of the call, so the
\* functions take their default objects.  The functions that assign to a
\* frame assign to their copy.

Held_c_chart ==
    Held("plot_c_chart",
         plot_c_chart(call.data.cols["f1"], call.data.index, Some(1), None),
         caller_frame(call.data, c_chart_frame(call.data, "f1", Some(1), None)),
         call.defaults)

Held_np_chart ==
    Held("plot_np_chart",
         plot_np_chart(call.data.cols["f1"], call.data.index, 2, Some(1), None),
         caller_frame(call.data, np_chart_frame(call.data, "f1", 2, Some(1), None)),
         call.defaults)

Held_p_chart ==
    Held("plot_p_chart",
         plot_p_chart(call.data.cols["f1"], call.data.index, 2, Some(1), None),
         caller_frame(call.data, p_chart_frame(call.data, "f1", 2, Some(1), None)),
         call.defaults)

Held_u_chart ==
    Held("plot_u_chart",
         plot_u_chart(call.data.cols["f1"], call.data.cols["id"],
                      HasColumn(call.data, "material_salida"), Some(1), None),
         caller_frame(call.data, u_chart_frame(call.data, "f1", "id", Some(1), None)),
         call.defaults)

\* plot_ewma_chart(df, "f1", 0.5, 3) for each f1 column a caller is given,
\* worked out once, and for any other column worked out when asked for
EwmaOfHeld == [x \in HeldFeatures |-> plot_ewma_chart(x, Rat(1, 2), 3)]

ewma_of(x) == IF x \in HeldFeatures THEN EwmaOfHeld[x] ELSE plot_ewma_chart(x, Rat(1, 2), 3)

Held_ewma_chart ==
    Held("plot_ewma_chart", ewma_of(call.data.cols["f1"]), call.data, call.defaults)

Held_imr_chart ==
    Held("plot_imr_chart", plot_imr_chart(present(call.data, {"f1"}).cols["f1"]),
         call.data, call.defaults)

Held_xbar_r_chart ==
    Held("xbar_r_chart_plotly",
         xbar_r_chart_plotly(present(call.data, {"f1"}).cols["f1"], 2),
         call.data, call.defaults)

Held_xbar_s_chart ==
    Held("plot_xbar_s_chart",
         plot_xbar_s_chart(present(call.data, {"f1"}).cols["f1"], 2),
         call.data, call.defaults)

\* the style dicts are read when the call comes to draw
Held_t2_chart ==
    LET chart == plot_t2_chart(present(call.data, {"f1", "target"}), <<"f1", "target">>,
                               <<19, 1>>, call.defaults.style)
    IN  Held("plot_t2_chart", chart, call.data,
             IF chart.err = ""
             THEN [call.defaults EXCEPT !.style = t2_style_after(call.defaults.style)]
             ELSE call.defaults)

Held_run_chart ==
    Held("plot_run_chart",
         plot_run_chart(present(call.data, {"f1"}), "f1", Some("id"), "mean"),
         call.data, call.defaults)

Held_heatmap ==
    Held("plot_heatmap", plot_heatmap(call.data, <<"f1", "target">>, "pearson"),
         call.data, call.defaults)

Held_ecdf ==
    Held("plot_ecdf", plot_ecdf(present(call.data, DOMAIN call.data.cols), Some("f1")),
         call.data, call.defaults)

Held_boxplot ==
    Held("plot_boxplot", plot_boxplot(call.data, "f1", Some("target")),
         caller_frame(call.data, categorical_frame(call.data, Some("target"))),
         call.defaults)

Held_histogram ==
    Held("plot_histogram", plot_histogram(call.data, "f1", Some("target"), 30),
         caller_frame(call.data, categorical_frame(call.data, Some("target"))),
         call.defaults)

Held_residuals ==
    Held("plot_residuals_vs_predicted",
         plot_residuals_vs_predicted(predict_of("same", call.data.cols["f1"]), <<"f1">>,
                                     call.data, "target", "id"),
         call.data, call.defaults)

Held_actual_vs_predicted ==
    Held("plot_actual_vs_predicted_scatter",
         plot_actual_vs_predicted_scatter(predict_of("same", call.data.cols["f1"]),
                                          <<"f1">>, call.data, "target", "id"),
         call.data, call.defaults)

Held_cumulative_error ==
    Held("plot_cumulative_error_distribution",
         plot_cumulative_error_distribution(predict_of("same", call.data.cols["f1"]),
                                            <<"f1">>, call.data, "target"),
         call.data, call.defaults)

Held_model_timeseries ==
    Held("plot_model_vs_actual_timeseries_with_hover",
         plot_model_vs_actual_timeseries_with_hover(
             predict_of("same", call.data.cols["f1"]), <<"f1">>, call.data, "target", "id"),
         caller_frame(call.data, timeseries_frame(call.data, "id")),
         call.defaults)

\* the frame plot_pdp_catboost is left with is the frame of numbers it was
\* given, or a swept one
Held_pdp ==
    LET chart == plot_pdp_catboost(PdpModel, pdp_frame(call.data), <<"f1">>, Some(2))
    IN  Held("plot_pdp_catboost", chart,
             IF chart.data = pdp_frame(call.data) THEN call.data ELSE chart.data,
             call.defaults)

\* the loop runs over the items of the shared list
Held_shap_decision ==
    Held("plot_shap_decision_catboost",
         plot_shap_decision_catboost(explainer(call.data), call.data.columns,
                                     for_each(call.defaults.indices).value, None),
         call.data,
         [call.defaults EXCEPT !.indices = for_each(call.defaults.indices).held])

NextSession ==
    \/ Caller_load \/ Held_c_chart \/ Held_np_chart \/ Held_p_chart \/ Held_u_chart
    \/ Held_ewma_chart \/ Held_imr_chart \/ Held_xbar_r_chart \/ Held_xbar_s_chart
    \/ Held_t2_chart \/ Held_run_chart \/ Held_heatmap \/ Held_ecdf \/ Held_boxplot
    \/ Held_histogram \/ Held_residuals \/ Held_actual_vs_predicted
    \/ Held_cumulative_error \/ Held_model_timeseries \/ Held_pdp
    \/ Held_shap_decision \/ Return

\* a caller's session
SpecSession == Init /\ [][NextSession]_vars

Next == NextSPC \/ NextShap \/ NextFrames \/ NextRank \/ NextMaterial \/ NextSession

\* every chart function modelled
Spec == Init /\ [][Next]_vars
(* ------------------------------ properties ---------------------------- *)

AttrCharts == {"plot_c_chart", "plot_np_chart", "plot_p_chart", "plot_u_chart"}

XbarCharts == {"xbar_r_chart_plotly", "plot_xbar_s_chart"}

\* a call is in flight and it returned a chart
ChartReturned == call.fn # "idle" /\ out.err = ""

Ordered(lcl, cl, ucl) == NLe(lcl, cl) /\ NLe(cl, ucl)

OrderedAt(o) == \A i \in 1..Len(o.cl) : Ordered(o.lcl[i], o.cl[i], o.ucl[i])

FlooredAt(o) == \A i \in 1..Len(o.lcl) : NLe(Num(RZero), o.lcl[i])

\* the same order for limits held in float64
FOrderedAt(o) == \A i \in 1..Len(o.cl) : FLe(o.lcl[i], o.cl[i]) /\ FLe(o.cl[i], o.ucl[i])

\* the rows of a column that hold a value, in row order, and their values
Present(cells) == SortedSeq({i \in 1..Len(cells) : cells[i] # None})

Observed(cells) == [i \in 1..Len(Present(cells)) |-> Val(cells[Present(cells)[i]])]

\* C1: every chart returned draws LCL <= CL <= UCL (c, np, p, u and EWMA at
\* every point; Individuals, Moving Range, X-bar, R and S as lines), and the
\* c, np, p and u charts draw LCL >= 0.
C1_LimitsOrdered ==
    ChartReturned =>
      /\ call.fn \in AttrCharts => OrderedAt(out)
      /\ call.fn = "plot_ewma_chart" => FOrderedAt(out)
      /\ call.fn \in AttrCharts => FlooredAt(out)
      /\ call.fn = "plot_imr_chart" =>
           /\ Ordered(out.ind_lcl, out.ind_cl, out.ind_ucl)
           /\ Ordered(out.mr_lcl, out.mr_cl, out.mr_ucl)
      /\ call.fn = "xbar_r_chart_plotly" =>
           /\ Ordered(out.x_lcl, out.x_cl, out.x_ucl)
           /\ Ordered(out.r_lcl, out.r_cl, out.r_ucl)
      /\ call.fn = "plot_xbar_s_chart" =>
           /\ Ordered(out.x_lcl, out.x_cl, out.x_ucl)
           /\ Ordered(out.s_lcl, out.s_cl, out.s_ucl)

\* an EWMA chart of a single observation is returned with limits that are NaN
C1_EwmaSingleObservation ==
    /\ call.fn = "plot_ewma_chart" /\ out.err = ""
    /\ Len(call.x) = 1
    /\ ~FIsNaN(out.cl[1])
    /\ FIsNaN(out.ucl[1]) /\ FIsNaN(out.lcl[1])

\* C2: the X-bar/R and X-bar/S charts raise ValueError for every subgroup_size
\* outside 2..10, whatever the number of rows.
C2_UnsupportedSizeIsValueError ==
    (call.fn \in XbarCharts /\ ~(call.subgroup_size \in 2..10)) => out.err = "ValueError"

\* subgroup_size = 0 ends in the division by zero of line 33 / 24
C2_ZeroSizeDivides ==
    /\ call.fn \in XbarCharts /\ call.subgroup_size = 0
    /\ out.err = "ZeroDivisionError"

\* C3: for a supported size s and n >= s non-missing observations the X-bar
\* charts form k = n // s subgroups, subgroup i being the non-missing
\* observations at positions i*s .. (i+1)*s-1 in row order; the last n mod s
\* are in no subgroup; means, ranges / deviations and label lists have length k.
C3_SubgroupPartition ==
    (/\ call.fn \in XbarCharts
     /\ call.subgroup_size \in 2..10
     /\ Len(Present(call.cells)) >= call.subgroup_size) =>
      LET s == call.subgroup_size
          rows == Present(call.cells)
          obs == Observed(call.cells)
          k == Len(rows) \div s
          member(i) == [j \in 1..s |-> obs[(i - 1) * s + j]]
          spread == IF call.fn = "xbar_r_chart_plotly" THEN out.r_y ELSE out.s_y
      IN  /\ out.err = ""
          /\ Len(out.xbar_y) = k /\ Len(spread) = k /\ Len(out.custom) = k
          /\ \A i \in 1..k :
               /\ out.custom[i] = [j \in 1..s |-> GroupLabel(rows[(i - 1) * s + j])]
               /\ out.xbar_y[i] = Num(Rat(SumInts(member(i)), s))
               /\ call.fn = "xbar_r_chart_plotly" =>
                    /\ \E j \in 1..s : \A h \in 1..s :
                         member(i)[j] - member(i)[h] <= out.r_y[i]
                    /\ \E j, h \in 1..s : member(i)[j] - member(i)[h] = out.r_y[i]
               /\ call.fn = "plot_xbar_s_chart" => out.s_y[i] = SampleStd(member(i))
          /\ \A p \in (k * s + 1)..Len(rows) :
               \A i \in 1..k, j \in 1..s : out.custom[i][j] # GroupLabel(rows[p])

\* a subgroup formed from a column with a missing cell, one observation left over
C3_SubgroupAndRemainder ==
    /\ call.fn \in XbarCharts /\ out.err = ""
    /\ call.subgroup_size = 2
    /\ Len(out.xbar_y) = 1
    /\ call.cells[2] = None
    /\ Len(Present(call.cells)) = 3

\* C4: the c, np, p and u charts raise ValueError when lower_spec and
\* upper_spec are both None, before the dataset is copied or anything is
\* computed; with at least one limit given that error is never raised.
C4_SpecLimitsCheckedFirst ==
    call.fn \in AttrCharts =>
      IF call.lower_spec = None /\ call.upper_spec = None
      THEN out.err = "ValueError" /\ out.steps = <<"check_spec">>
      ELSE out.err # "ValueError"

\* a dataset with rows and no limit at all: the error, and nothing else done
C4_NoLimitRejected ==
    /\ call.fn = "plot_np_chart"
    /\ call.lower_spec = None /\ call.upper_spec = None
    /\ Len(call.values) >= 2
    /\ out.err = "ValueError" /\ out.steps = <<"check_spec">>
\* the elements a plot draws one after another, as <<start, end>> pairs: the
\* segments of a decision trace, the bars of a waterfall or force plot
DecisionElements(trace) == [i \in 1..(Len(trace.y) - 1) |-> <<trace.y[i], trace.y[i + 1]>>]

WaterfallElements(traces) ==
    [i \in 1..Len(traces) |-> <<DrawnFrom(traces[i]), DrawnFrom(traces[i]) + traces[i].y>>]

ForceElements(traces) ==
    [i \in 1..Len(traces) |-> <<DrawnFrom(traces[i]), DrawnFrom(traces[i]) + traces[i].x>>]

\* the first element starts at base and each later one where the one before ended
Chained(elements, base) ==
    /\ Len(elements) > 0 => elements[1][1] = base
    /\ \A i \in 2..Len(elements) : elements[i][1] = elements[i - 1][2]

\* the baseline of the row at 0-based position row
BaselineOf(row) == call.expl.base[row + 1]

AttributionsOf(row) == call.expl.values[row + 1]

\* C5: for every row selected, baseline plus the attributions in the order
\* drawn - the last point of the decision trace, the prediction the waterfall
\* annotates, the end of the last force bar and the force plot's prediction
\* marker - equals the model's prediction for that row.
C5_SumsToPrediction ==
    ChartReturned =>
      /\ call.fn = "plot_shap_decision_catboost" =>
           \A t \in 1..Len(call.indices) :
             out.traces[t].y[Len(out.traces[t].y)] = Prediction(call.expl, call.indices[t])
      /\ call.fn = "plot_shap_waterfall_catboost" =>
           /\ out.predicted_value = Prediction(call.expl, call.row_index)
           /\ out.base_value + SumInts([i \in 1..Len(out.traces) |-> out.traces[i].y])
                = Prediction(call.expl, call.row_index)
      /\ call.fn = "plot_shap_force_catboost_by_domain" =>
           /\ out.prediction = Prediction(call.expl, call.row_index)
           /\ ForceElements(out.traces)[Len(out.traces)][2]
                = Prediction(call.expl, call.row_index)

\* a decision trace of a row whose baseline is not row 0's ends off the prediction
C5_DecisionUsesFirstBaseline ==
    /\ call.fn = "plot_shap_decision_catboost" /\ out.err = ""
    /\ \E t \in 1..Len(call.indices) :
         /\ BaselineOf(call.indices[t]) # BaselineOf(0)
         /\ out.traces[t].y[1] = BaselineOf(0)
         /\ out.traces[t].y[Len(out.traces[t].y)] # Prediction(call.expl, call.indices[t])

\* C6: the decision, waterfall and force plots each draw a stacked sum from
\* the baseline: the first element starts at the row's baseline and every
\* later element starts where the one before ended.
C6_StackedFromBaseline ==
    ChartReturned =>
      /\ call.fn = "plot_shap_decision_catboost" =>
           \A t \in 1..Len(call.indices) :
             Chained(DecisionElements(out.traces[t]), BaselineOf(call.indices[t]))
      /\ call.fn = "plot_shap_waterfall_catboost" =>
           Chained(WaterfallElements(out.traces), BaselineOf(call.row_index))
      /\ call.fn = "plot_shap_waterfall_catboost" => out.base_value = BaselineOf(call.row_index)
      /\ call.fn = "plot_shap_force_catboost_by_domain" =>
           Chained(ForceElements(out.traces), BaselineOf(call.row_index))

\* every waterfall bar is drawn from 0, whatever the baseline and the bar before
C6_WaterfallBarsFromZero ==
    /\ call.fn = "plot_shap_waterfall_catboost" /\ out.err = ""
    /\ BaselineOf(call.row_index) # 0
    /\ out.traces[1].y # 0
    /\ \A i \in 1..Len(out.traces) : WaterfallElements(out.traces)[i][1] = 0

\* the features shown, as <<name, feature value, attribution>>, are each a
\* feature of the row with its own value and attribution, none twice
ShowsEachFeatureOnce(shown, row) ==
    /\ Len(shown) = NumFeatures
    /\ \A i \in 1..Len(shown) :
         \E f \in 1..NumFeatures :
           shown[i] = <<FeatureNames[f], RowData(row)[f], AttributionsOf(row)[f]>>
    /\ \A i, j \in 1..Len(shown) : i # j => shown[i][1] # shown[j][1]

NonIncreasingAbs(shown) ==
    \A i \in 2..Len(shown) : Abs(shown[i][3]) <= Abs(shown[i - 1][3])

\* C7: the decision plot lists the attributions in the original feature order,
\* the waterfall and force plots by non-increasing absolute attribution; each
\* shows every feature of the row once, each name (and feature value) with
\* its own attribution.
C7_OrderAndPairing ==
    ChartReturned =>
      /\ call.fn = "plot_shap_decision_catboost" =>
           /\ out.ticktext = <<"Base Value">> \o FeatureNames
           /\ \A t \in 1..Len(call.indices) :
                /\ Len(out.traces[t].text) = NumFeatures + 1
                /\ \A f \in 1..NumFeatures :
                     out.traces[t].text[f + 1]
                       = <<FeatureNames[f], AttributionsOf(call.indices[t])[f]>>
      /\ call.fn = "plot_shap_waterfall_catboost" =>
           LET shown == [i \in 1..Len(out.traces) |->
                           <<out.traces[i].name, out.traces[i].value, out.traces[i].y>>]
           IN  ShowsEachFeatureOnce(shown, call.row_index) /\ NonIncreasingAbs(shown)
      /\ call.fn = "plot_shap_force_catboost_by_domain" =>
           LET shown == [i \in 1..Len(out.traces) |->
                           <<out.traces[i].name, out.traces[i].value, out.traces[i].x>>]
           IN  ShowsEachFeatureOnce(shown, call.row_index) /\ NonIncreasingAbs(shown)

\* a waterfall of a second row whose largest attribution is its last feature's
C7_WaterfallReordered ==
    /\ call.fn = "plot_shap_waterfall_catboost" /\ out.err = ""
    /\ call.row_index = 1
    /\ Abs(AttributionsOf(1)[1]) < Abs(AttributionsOf(1)[2])
    /\ Abs(AttributionsOf(1)[2]) < Abs(AttributionsOf(1)[3])
    /\ out.traces[1].name = FeatureNames[3]
    /\ out.traces[3].name = FeatureNames[1]

\* the EWMA series obeys line 32 and line 35, computed in float64
EwmaRecursion ==
    LET lam == FDivInts(call.lambda_value[1], call.lambda_value[2])
    IN  /\ Len(out.y) = Len(call.x)
        /\ out.y[1] = FDivInts(SumInts(call.x), Len(call.x))
        /\ \A i \in 2..Len(call.x) :
             out.y[i] = FAdd(FMul(lam, FFromInt(call.x[i])),
                             FMul(FSub(FFromInt(1), lam), out.y[i - 1]))

\* whether |a| < 2^k
FBelow(a, k) == a.s = 0 \/ a.e + MantBits <= k

ConstantInput == \A i \in 1..Len(call.x) : call.x[i] = call.x[1]

\* C8 as stated: ewma[0] is mean(x), ewma[i] is lambda*x[i] + (1-lambda)*ewma[i-1],
\* and for a constant input ewma[i] == x[0] for all i.
C8_EwmaConstantExact ==
    (call.fn = "plot_ewma_chart" /\ out.err = "") =>
      /\ EwmaRecursion
      /\ ConstantInput => \A i \in 1..Len(call.x) : out.y[i] = FFromInt(call.x[1])

\* C8, amended: ewma[0] is mean(x) and ewma[i] is lambda*x[i] + (1-lambda)*ewma[i-1]
\* as float64 computes them; for a constant input of integers ewma[0] == x[0]
\* and every ewma[i] is within 2^-40 of x[0].
C8_EwmaConstantWithinRounding ==
    (call.fn = "plot_ewma_chart" /\ out.err = "") =>
      /\ EwmaRecursion
      /\ ConstantInput =>
           /\ out.y[1] = FFromInt(call.x[1])
           /\ \A i \in 1..Len(call.x) : FBelow(FSub(out.y[i], FFromInt(call.x[1])), 0 - 40)

\* a constant column of 3s smoothed with the default lambda: the second value
\* is not 3, and is within rounding of it
C8_ConstantInputRounded ==
    /\ call.fn = "plot_ewma_chart" /\ out.err = ""
    /\ call.x = <<3, 3>>
    /\ call.lambda_value = Rat(1, 5)
    /\ out.y[1] = FFromInt(3)
    /\ out.y[2] # FFromInt(3)
    /\ FBelow(FSub(out.y[2], FFromInt(3)), 0 - 40)

\* C9: for n >= 2 non-missing observations x the I-MR chart's moving ranges
\* are n - 1 values, the i-th being |x[i+1] - x[i]|.
C9_MovingRange ==
    (call.fn = "plot_imr_chart" /\ Len(Present(call.cells)) >= 2) =>
      LET x == Observed(call.cells)
      IN  /\ out.err = ""
          /\ out.ind_y = x
          /\ Len(out.mr_y) = Len(x) - 1
          /\ \A i \in 1..(Len(x) - 1) :
               /\ out.mr_y[i] >= 0
               /\ out.mr_y[i] \in {x[i + 1] - x[i], x[i] - x[i + 1]}

\* a falling pair across a missing cell
C9_RangeAcrossMissingCell ==
    /\ call.fn = "plot_imr_chart" /\ out.err = ""
    /\ call.cells = <<Some(1), None, Some(0), Some(1)>>
    /\ out.mr_y = <<1, 1>>

\* C10: too few rows end in ValueError at once and no chart: the I-MR chart
\* with fewer than 2 non-missing values, the X-bar charts with fewer
\* non-missing values than one subgroup (subgroup_size >= 1).
C10_TooFewRows ==
    /\ (call.fn = "plot_imr_chart" /\ Len(Present(call.cells)) < 2) =>
         out.err = "ValueError" /\ out.steps = <<"dropna", "check_rows">>
    /\ (call.fn \in XbarCharts /\ call.subgroup_size >= 1
          /\ Len(Present(call.cells)) < call.subgroup_size) =>
         out.err = "ValueError" /\ out.steps = <<"dropna", "check_rows">>

\* a column whose only second value is missing, given to the I-MR chart
C10_OneObservationLeft ==
    /\ call.fn = "plot_imr_chart"
    /\ call.cells = <<Some(1), None>>
    /\ out.err = "ValueError"
\* the chart functions that take a frame and the names of its columns to read
FrameCharts ==
    {"plot_heatmap", "plot_ecdf", "plot_run_chart", "plot_pdp_catboost",
     "plot_cumulative_error_distribution", "plot_residuals_vs_predicted",
     "plot_actual_vs_predicted_scatter"}

\* C11: a call that names a column the dataset does not have fails and
\* returns no chart, also when only some of the names are absent
C11_AbsentColumnFails ==
    (call.fn \in FrameCharts /\ AbsentFrom(call.df, call.requested) # {})
        => out.err # ""

\* a heatmap asked for a and c on a frame that has a but no c, drawn over a alone
C11_HeatmapDropsAbsentColumn ==
    /\ call.fn = "plot_heatmap"
    /\ call.requested = <<"a", "c">>
    /\ HasColumn(call.df, "a")
    /\ out.err = ""
    /\ out.labels = <<"a">>

\* sqrt(p_bar * (1 - p_bar) / n) for a rational or NaN p_bar
BinomialRoot(p_bar, n) ==
    IF p_bar.nan THEN NaN
    ELSE NpSqrt(RDiv(RMul(p_bar.a, RSub(ROne, p_bar.a)), RInt(n)))

\* the mean defective proportion behind the center line drawn
PBarOf(c, cl) ==
    IF c.fn = "plot_np_chart" THEN NScale(Rat(1, c.subgroup_size), cl) ELSE cl

\* the points drawn are the subgroups index // subgroup_size of the rows
GroupedByIndex ==
    LET subgroup == [i \in 1..Len(call.index) |-> call.index[i] \div call.subgroup_size]
        rows(key) == {i \in 1..Len(subgroup) : subgroup[i] = key}
        flags == [i \in 1..Len(call.values) |->
                    is_defective(call.values[i], call.lower_spec, call.upper_spec)]
    IN  /\ {out.x[g] : g \in 1..Len(out.x)} = {subgroup[i] : i \in 1..Len(subgroup)}
        /\ Len(out.y) = Len(out.x)
        /\ \A g \in 1..Len(out.x) :
             out.y[g] = IF call.fn = "plot_np_chart"
                        THEN SumOver(flags, rows(out.x[g]))
                        ELSE Rat(SumOver(flags, rows(out.x[g])),
                                 Cardinality(rows(out.x[g])))

\* the limits drawn are cl + h and max(0, cl - h) at every point
LimitsAre(h(_)) ==
    \A g \in 1..Len(out.cl) :
        /\ out.ucl[g] = NAdd(out.cl[g], h(out.cl[g]))
        /\ out.lcl[g] = PyMax0(NSub(out.cl[g], h(out.cl[g])))

NpOrPChart == call.fn \in {"plot_np_chart", "plot_p_chart"} /\ out.err = ""

\* C12 as stated: rows are grouped by index // subgroup_size, and in both
\* charts the limits are CL +/- 3 * sqrt(p_bar * (1 - p_bar) / n), the lower
\* one floored at 0
C12_LimitsAroundCenterLine ==
    NpOrPChart =>
        /\ GroupedByIndex
        /\ LET h(cl) == NScale(RInt(3),
                               BinomialRoot(PBarOf(call, cl), call.subgroup_size))
           IN  LimitsAre(h)

\* C12: rows are grouped by index // subgroup_size; the p-chart limits are
\* CL +/- 3 * sqrt(p_bar * (1 - p_bar) / n) and the np-chart limits are
\* CL +/- 3 * n * sqrt(p_bar * (1 - p_bar) / n), the lower one floored at 0
C12_BinomialLimits ==
    NpOrPChart =>
        /\ GroupedByIndex
        /\ LET scale == IF call.fn = "plot_np_chart" THEN 3 * call.subgroup_size ELSE 3
               h(cl) == NScale(RInt(scale),
                               BinomialRoot(PBarOf(call, cl), call.subgroup_size))
           IN  LimitsAre(h)

\* an np-chart of subgroups of two or more rows whose limits lie off the center line
C12_NpChartOfPairs ==
    /\ call.fn = "plot_np_chart"
    /\ out.err = ""
    /\ call.subgroup_size >= 2
    /\ Len(out.cl) >= 2
    /\ ~out.ucl[1].nan
    /\ NLt(out.cl[1], out.ucl[1])
    /\ NLt(Num(RZero), out.lcl[1]) \/ IsZero(out.lcl[1])

\* the width of the limit band drawn at row i
BandAt(i) == NSub(out.ucl[i], out.lcl[i])

\* C13: the u-chart center line is total defects / total sample size, row i's
\* limits are CL +/- 3 * sqrt(CL / sample_size_i) with the lower one clipped
\* at 0, and a row with a larger sample size never has a wider band
C13_ULimitsPerRow ==
    (call.fn = "plot_u_chart" /\ out.err = "") =>
        LET n == Len(call.values)
            defects == SumInts([i \in 1..n |->
                          is_defective(call.values[i], call.lower_spec,
                                       call.upper_spec)])
            cl == Num(Rat(defects, SumInts(call.sizes)))
            half(i) == NScale(RInt(3), SqrtOf(NScale(Rat(1, call.sizes[i]), cl)))
        IN  /\ Len(out.cl) = n /\ Len(out.ucl) = n /\ Len(out.lcl) = n
            /\ \A i \in 1..n :
                 /\ out.cl[i] = cl
                 /\ out.ucl[i] = NAdd(cl, half(i))
                 /\ out.lcl[i] = Clip0(NSub(cl, half(i)))
            /\ \A i, j \in 1..n :
                 call.sizes[i] >= call.sizes[j] => NLe(BandAt(i), BandAt(j))

\* two rows of unlike sample size, the larger sample with the strictly narrower band
C13_NarrowerBandForLargerSample ==
    /\ call.fn = "plot_u_chart"
    /\ out.err = ""
    /\ Len(call.sizes) = 2
    /\ call.sizes[1] < call.sizes[2]
    /\ NLt(BandAt(2), BandAt(1))
    /\ IsZero(out.lcl[1])

\* the values of a column that are not missing, as a set of <<row, value>>
Sample(cells) == {<<i, Val(cells[i])>> : i \in {j \in 1..Len(cells) : ~IsNone(cells[j])}}

\* the j-th smallest value of a sample
OrderStatistic(S, j) ==
    CHOOSE v \in {p[2] : p \in S} :
        /\ Cardinality({p \in S : p[2] < v}) < j
        /\ j <= Cardinality({p \in S : p[2] <= v})

MeanOf(S) ==
    IF S = {} THEN NaN
    ELSE Num(Rat(SumOver([i \in {p[1] : p \in S} |->
                             (CHOOSE p \in S : p[1] = i)[2]], {p[1] : p \in S}),
                 Cardinality(S)))

MedianOf(S) ==
    LET k == Cardinality(S)
    IN  IF k = 0 THEN NaN
        ELSE Num(Rat(OrderStatistic(S, (k + 1) \div 2)
                     + OrderStatistic(S, k \div 2 + 1), 2))

\* the cells plotted are the cells of the column, each as often as it is there
SameRows(plotted, cells) ==
    /\ Len(plotted) = Len(cells)
    /\ \A v \in {cells[i] : i \in 1..Len(cells)} \cup {plotted[i] : i \in 1..Len(plotted)} :
         Cardinality({i \in 1..Len(plotted) : plotted[i] = v})
           = Cardinality({i \in 1..Len(cells) : cells[i] = v})

\* C14: a run chart has exactly the observed trace and a constant center
\* line at the mean or the median of the column as center_line asks, and
\* no limits; any other center_line raises ValueError and gives no chart
C14_RunChartCenterLine ==
    (call.fn = "plot_run_chart" /\ AbsentFrom(call.df, call.requested) = {}) =>
        LET cells == call.df.cols[call.column]
        IN  IF call.center_line \in {"mean", "median"}
            THEN /\ out.err = ""
                 /\ Len(out.traces) = 2
                 /\ Len(out.traces[1].y) = Len(cells)
                 /\ SameRows(out.traces[1].y, cells)
                 /\ out.traces[2].x = out.traces[1].x
                 /\ out.traces[2].y =
                      Repeat(IF call.center_line = "mean" THEN MeanOf(Sample(cells))
                             ELSE MedianOf(Sample(cells)), Len(cells))
            ELSE out.err = "ValueError"

\* a median line that differs from the mean, over rows put in time order
C14_MedianOffTheMean ==
    /\ call.fn = "plot_run_chart"
    /\ call.center_line = "median"
    /\ call.time_col # None
    /\ out.err = ""
    /\ Len(out.traces[2].y) >= 3
    /\ out.traces[2].y[1] # MeanOf(Sample(call.df.cols[call.column]))
    /\ out.traces[1].y # call.df.cols[call.column]

NonDecreasing(xs) == \A i \in 1..(Len(xs) - 1) : xs[i] <= xs[i + 1]

CumulativeChart == call.fn = "plot_cumulative_error_distribution" /\ out.err = ""

\* |actual - predicted| row by row
AbsResiduals ==
    [i \in 1..call.df.n |-> Abs(call.df.cols["target"][i] - call.predict[i])]

\* x is the absolute residuals in ascending order, one level per residual
EcdfOverResiduals ==
    /\ Len(out.x) = call.df.n /\ Len(out.y) = call.df.n
    /\ NonDecreasing(out.x)
    /\ SameRows(out.x, AbsResiduals)

\* the step from level i to level i + 1, as float64 subtracts them
EcdfStep(i) == FSub(out.y[i + 1], out.y[i])

\* C15 as stated: with n >= 1 rows the x values are the absolute residuals
\* in ascending order and y[i] = (i+1)/n: n points rising strictly in steps
\* of exactly 1/n from 1/n (> 0) to exactly 1
C15_EcdfExactSteps ==
    CumulativeChart =>
        LET n == call.df.n
        IN  /\ EcdfOverResiduals
            /\ \A i \in 1..n : out.y[i] = FDivInts(i, n)
            /\ \A i \in 1..(n - 1) :
                 /\ FLt(out.y[i], out.y[i + 1])
                 /\ FEq(EcdfStep(i), FDivInts(1, n))
            /\ out.y[1] = FDivInts(1, n) /\ FLt(FZero, out.y[1])
            /\ out.y[n] = FFromInt(1)

\* C15, amended: with n >= 1 rows the x values are the absolute residuals in
\* ascending order and y[i] is (i+1)/n as float64 divides them: n points
\* rising strictly from 1/n (> 0) to exactly 1.0, each step within 2^-50 of
\* 1/n
C15_CumulativeErrorEcdf ==
    CumulativeChart =>
        LET n == call.df.n
        IN  /\ EcdfOverResiduals
            /\ \A i \in 1..n : out.y[i] = FDivInts(i, n)
            /\ \A i \in 1..(n - 1) :
                 /\ FLt(out.y[i], out.y[i + 1])
                 /\ FBelow(FSub(EcdfStep(i), FDivInts(1, n)), 0 - 50)
            /\ out.y[1] = FDivInts(1, n) /\ FLt(FZero, out.y[1])
            /\ out.y[n] = FFromInt(1)

\* three rows whose residuals are not already in ascending order: the first
\* step is 1/3 as float64 has it, the second is not, and is within rounding
\* of it
C15_ThirdsStepRounded ==
    /\ CumulativeChart
    /\ call.df.n = 3
    /\ out.x # AbsResiduals
    /\ out.x[1] < out.x[3]
    /\ out.y = <<FDivInts(1, 3), FDivInts(2, 3), FFromInt(1)>>
    /\ EcdfStep(1) = FDivInts(1, 3)
    /\ EcdfStep(2) # FDivInts(1, 3)
    /\ FBelow(FSub(EcdfStep(2), FDivInts(1, 3)), 0 - 50)

\* the values of a sample in ascending order
Ascending(S) ==
    [j \in 1..Cardinality(S) |-> OrderStatistic(S, j)]

\* C16: plot_ecdf draws, for the n non-missing values of numeric_col, those
\* values in ascending order against y[i] = (i+1)/n, so x and y both have n
\* points and y ends at 1, whatever other columns or missing cells there are
C16_EcdfOfColumn ==
    (call.fn = "plot_ecdf" /\ out.err = "") =>
        LET vals == Ascending(Sample(call.df.cols[Val(call.numeric_col)]))
            n == Len(vals)
        IN  /\ Len(out.x) = n
            /\ \A i \in 1..n : out.x[i] = <<Some(vals[i])>>
            /\ Len(out.y) = n
            /\ \A i \in 1..n : out.y[i] = FDivInts(i, n)

\* an ECDF asked for over v, on a frame that has a second column and a missing v
C16_EcdfOverWholeFrame ==
    /\ call.fn = "plot_ecdf"
    /\ out.err = ""
    /\ HasColumn(call.df, "w")
    /\ \E i \in 1..call.df.n : IsNone(call.df.cols["v"][i])
    /\ Len(out.y) = 2 * call.df.n
    /\ Len(out.x) = call.df.n
    /\ call.df.n >= 2

ResidualCharts ==
    {"plot_residuals_vs_predicted", "plot_actual_vs_predicted_scatter",
     "plot_cumulative_error_distribution"}

\* the model predicts the target of every row exactly
ExactModel ==
    /\ call.fn \in ResidualCharts
    /\ HasColumn(call.df, "target")
    /\ call.predict = call.df.cols["target"]

\* C17: when the prediction equals the target in every row, the residual
\* plot has every y = 0, the actual-vs-predicted scatter has every point on
\* the identity line with error 0, and the cumulative error plot has every
\* x = 0 with y rising to 1
C17_ExactModelZeroResiduals ==
    ExactModel =>
        /\ AbsentFrom(call.df, call.requested) = {} => out.err = ""
        /\ out.err = "" =>
             LET n == call.df.n
             IN  IF call.fn = "plot_residuals_vs_predicted"
                 THEN /\ out.points.y = Repeat(0, n)
                      /\ \A i \in 1..n : out.points.text[i].residual = 0
                      /\ out.line.y = <<0, 0>>
                 ELSE IF call.fn = "plot_actual_vs_predicted_scatter"
                 THEN /\ Len(out.points.x) = n
                      /\ \A i \in 1..n :
                           /\ out.points.y[i] = out.points.x[i]
                           /\ out.points.text[i].error = 0
                           /\ out.line.x[1] <= out.points.x[i]
                           /\ out.points.x[i] <= out.line.x[2]
                      /\ out.line.y = out.line.x
                 ELSE /\ out.x = Repeat(0, n)
                      /\ Len(out.y) = n
                      /\ out.y[n] = FFromInt(1)

\* ten rows, target 5 throughout, every prediction 5, in the residual plot
C17_TenRowsOfFive ==
    /\ call.fn = "plot_residuals_vs_predicted"
    /\ call.df.n = 10
    /\ call.predict = Repeat(5, 10)
    /\ HasColumn(call.df, "target") /\ call.df.cols["target"] = Repeat(5, 10)
    /\ out.err = ""
    /\ out.points.y = Repeat(0, 10)
    /\ out.points.x = Repeat(5, 10)

PdpChart == call.fn = "plot_pdp_catboost" /\ out.err = ""

\* C18: for every feature swept and every grid_points, grid_points = 1
\* included, the grid starts at the feature's observed minimum and ends at
\* its observed maximum
C18_GridHasBothEndpoints ==
    PdpChart =>
        \A j \in 1..Len(out.traces) :
            LET grid == out.traces[j].x
                col == call.df.cols[out.traces[j].name]
            IN  /\ Len(grid) >= 1
                /\ grid[1] = col_min(col)
                /\ grid[Len(grid)] = col_max(col)

\* one grid point asked for on a feature that takes two values: the grid is
\* the minimum alone
C18_SinglePointGrid ==
    /\ PdpChart
    /\ call.grid_points = Some(1)
    /\ Len(out.traces) >= 1
    /\ out.traces[1].x = <<col_min(call.df.cols[out.traces[1].name])>>
    /\ NLt(col_min(call.df.cols[out.traces[1].name]),
           col_max(call.df.cols[out.traces[1].name]))

\* a frame passed to model.predict while feature is swept to val: the
\* caller's frame with that one column set to val in every row
SweptCopy(pool, feature, val) ==
    /\ pool.n = call.df.n
    /\ DOMAIN pool.cols = DOMAIN call.df.cols
    /\ \A k \in DOMAIN pool.cols :
         pool.cols[k] = IF k = feature THEN Repeat(val, call.df.n) ELSE call.df.cols[k]

\* the mean over the rows of the predictions the model makes on a frame
MeanPrediction(pool) ==
    LET row(i) == NAdd(IF HasColumn(pool, "f1")
                       THEN NScale(RInt(call.model["f1"]), pool.cols["f1"][i])
                       ELSE Num(RZero),
                       IF HasColumn(pool, "f2")
                       THEN NScale(RInt(call.model["f2"]), pool.cols["f2"][i])
                       ELSE Num(RZero))
    IN  NScale(Rat(1, pool.n), SumRange([i \in 1..pool.n |-> row(i)], 1, pool.n))

\* C19: at every grid value the model predicts on a copy of the whole
\* dataset in which only the swept column is replaced, by that grid value in
\* every row; no sweep leaks into the next feature's, the caller's dataset is
\* unchanged after the call, and each trace has one mean prediction per grid value
C19_SweepOnCopies ==
    call.fn = "plot_pdp_catboost" =>
        /\ out.data = call.df
        /\ out.err = "" =>
             /\ Len(out.traces) = Len(call.requested)
             /\ \A j \in 1..Len(out.traces) :
                  LET t == out.traces[j]
                  IN  /\ t.name = call.requested[j]
                      /\ Len(t.x) = out.grid_points
                      /\ Len(t.y) = Len(t.x)
                      /\ Len(t.pools) = Len(t.x)
                      /\ \A i \in 1..Len(t.x) :
                           /\ SweptCopy(t.pools[i], t.name, t.x[i])
                           /\ t.y[i] = MeanPrediction(t.pools[i])
                      /\ \A i \in 1..Len(t.x) :
                           /\ NLe(col_min(call.df.cols[t.name]), t.x[i])
                           /\ NLe(t.x[i], col_max(call.df.cols[t.name]))

\* two features that both vary, swept one after the other over three grid values
C19_TwoFeaturesSwept ==
    /\ PdpChart
    /\ call.requested = <<"f1", "f2">>
    /\ out.grid_points = 3
    /\ Len(out.traces) = 2
    /\ out.traces[1].x[1] # out.traces[1].x[3]
    /\ out.traces[2].x[1] # out.traces[2].x[3]
    /\ call.df.cols["f1"] # call.df.cols["f2"]
    /\ out.traces[2].pools[1].cols["f1"] = call.df.cols["f1"]

\* the number of grid points for a number of rows, band by band
GridPointsFor(n_rows) ==
    IF n_rows <= 199 THEN 10
    ELSE IF n_rows <= 499 THEN 15
    ELSE IF n_rows <= 999 THEN 20
    ELSE IF n_rows <= 4999 THEN 25
    ELSE 30

\* C20: without grid_points the chart uses get_optimal_grid_points(rows), a
\* non-decreasing step function (10 below 200 rows, 15 for 200..499, 20 for
\* 500..999, 25 for 1000..4999, 30 from 5000 on); a grid_points given by the
\* caller is used unchanged
C20_DefaultGridPoints ==
    /\ call.fn = "get_optimal_grid_points" =>
         /\ out.value = GridPointsFor(call.n_rows)
         /\ call.n_rows >= 1 => get_optimal_grid_points(call.n_rows - 1) <= out.value
    /\ call.fn = "plot_pdp_catboost" =>
         /\ out.grid_points = IF IsNone(call.grid_points) THEN GridPointsFor(call.df.n)
                              ELSE Val(call.grid_points)
         /\ out.err = "" =>
              \A j \in 1..Len(out.traces) : Len(out.traces[j].x) = out.grid_points

\* a frame of 200 rows swept without grid_points: 15 grid values
C20_SecondBand ==
    /\ PdpChart
    /\ IsNone(call.grid_points)
    /\ call.df.n = 200
    /\ Len(out.traces) = 1
    /\ Len(out.traces[1].x) = 15

(* ---------------------- ranking charts (C21, C22) --------------------- *)

Smaller(a, b) == IF a < b THEN a ELSE b

\* the mean over all rows of |attribution| of the feature at position f
MeanAbsAttribution(shap, f) ==
    Rat(SumOver([r \in 1..Len(shap) |-> Abs(shap[r][f])], 1..Len(shap)), Len(shap))

\* the positions of the features that have a point in the summary plot
Retained ==
    {f \in 1..NumFeatures :
        \E i \in 1..Len(out.points) : out.points[i].feature = FeatureNames[f]}

\* C21: for a display count max_display >= 0, plot_shap_summary_catboost
\* retains exactly min(max_display, number of features) features; every
\* retained feature has a mean absolute attribution (over all rows) >= that
\* of every dropped one; and each retained feature keeps the attribution of
\* every row, in row order.
C21_SummaryTopFeatures ==
    (call.fn = "plot_shap_summary_catboost" /\ call.max_display >= 0) =>
        /\ out.err = ""
        /\ Cardinality(Retained) = Smaller(call.max_display, NumFeatures)
        /\ \A f \in Retained : \A g \in (1..NumFeatures) \ Retained :
             RLe(MeanAbsAttribution(call.shap, g), MeanAbsAttribution(call.shap, f))
        /\ \A f \in Retained :
             LET own == SelectSeq(out.points, LAMBDA p : p.feature = FeatureNames[f])
             IN  /\ Len(own) = Len(call.shap)
                 /\ \A r \in 1..Len(own) : own[r].shap = call.shap[r][f]

\* two rows, two of three features retained, the dropped one strictly below
\* both, and a retained one whose attributions are all negative or zero
C21_NegativeFeatureRetained ==
    /\ call.fn = "plot_shap_summary_catboost"
    /\ call.max_display = 2
    /\ Len(call.shap) = 2
    /\ Cardinality(Retained) = 2
    /\ \A f \in Retained : \A g \in (1..NumFeatures) \ Retained :
         RLt(MeanAbsAttribution(call.shap, g), MeanAbsAttribution(call.shap, f))
    /\ \E f \in Retained :
         /\ \A r \in 1..2 : call.shap[r][f] <= 0
         /\ \E r \in 1..2 : call.shap[r][f] < 0
    /\ \E g \in (1..NumFeatures) \ Retained : \E r \in 1..2 : call.shap[r][g] > 0

RankingCharts == {"plot_feature_importance_catboost", "plot_catboost_global_explanations",
                  "plot_feature_interactions_catboost"}

\* what the model returned, entry by entry: the feature name (or the pair of
\* names) an entry stands for, and its score
ModelEntries ==
    IF call.fn = "plot_feature_importance_catboost"
    THEN [i \in 1..Len(call.importances) |->
            [name |-> <<FeatureNames[i]>>, score |-> call.importances[i]]]
    ELSE IF call.fn = "plot_catboost_global_explanations"
    THEN [i \in 1..Len(call.importances) |->
            [name |-> IF IsNone(call.feature_names) THEN <<"Feature", i - 1>>
                      ELSE <<Val(call.feature_names)[i]>>,
             score |-> call.importances[i]]]
    ELSE [i \in 1..Len(call.interactions) |->
            [name |-> <<FeatureNames[call.interactions[i][1] + 1],
                        FeatureNames[call.interactions[i][2] + 1]>>,
             score |-> call.interactions[i][3]]]

\* what the chart shows, in the order of the chart's table
ChartEntries ==
    IF call.fn = "plot_feature_interactions_catboost"
    THEN [i \in 1..Len(out.points) |->
            [name |-> <<out.points[i].feature1, out.points[i].feature2>>,
             score |-> out.points[i].strength]]
    ELSE [i \in 1..Len(out.bars) |->
            [name |-> IF call.fn = "plot_catboost_global_explanations"
                         /\ IsNone(call.feature_names)
                      THEN <<"Feature", CHOOSE k \in 0..NumFeatures :
                                          out.bars[i].feature = "Feature " \o ToString(k)>>
                      ELSE <<out.bars[i].feature>>,
             score |-> out.bars[i].importance]]

\* C22: for top_n >= 0, each of the three ranking charts shows exactly
\* min(top_n, number of entries) of the entries the model returned, in order
\* of non-increasing score; every entry shown is an entry of the model with
\* its own name (or pair of names) and its own score, none shown twice; and
\* no entry left out has a higher score than an entry shown.
C22_TopScoresKeptPaired ==
    (call.fn \in RankingCharts /\ call.top_n >= 0 /\ out.err = "") =>
        LET entries == ModelEntries
            shown == ChartEntries
            Shown(i) == \E k \in 1..Len(shown) : shown[k] = entries[i]
        IN  /\ Len(shown) = Smaller(call.top_n, Len(entries))
            /\ \A k \in 1..(Len(shown) - 1) : shown[k].score >= shown[k + 1].score
            /\ \A k \in 1..Len(shown) : \E i \in 1..Len(entries) : shown[k] = entries[i]
            /\ \A k, l \in 1..Len(shown) : shown[k].name = shown[l].name => k = l
            /\ \A i, j \in 1..Len(entries) :
                 (Shown(i) /\ ~Shown(j)) => entries[i].score >= entries[j].score

\* two of three interactions shown, out of the order the model gave them in,
\* the one left out strictly weaker than both
C22_StrongestTwoInteractions ==
    /\ call.fn = "plot_feature_interactions_catboost"
    /\ call.top_n = 2
    /\ Len(call.interactions) = 3
    /\ Len(out.points) = 2
    /\ call.interactions[1][3] < call.interactions[2][3]
    /\ call.interactions[1][3] < call.interactions[3][3]
    /\ call.interactions[2][3] < call.interactions[3][3]
    /\ out.points[1].strength = call.interactions[3][3]
    /\ out.points[2].strength = call.interactions[2][3]
    /\ out.points[1].feature1 = FeatureNames[call.interactions[3][1] + 1]

(* ------------------- the material column (C24, C25) ------------------- *)

\* the dataset of the call has no column 'material_salida'
WithoutMaterial ==
    \/ call.fn = "plot_u_chart" /\ ~call.material
    \/ call.fn = "plot_t2_chart" /\ ~HasColumn(call.df, "material_salida")

\* C24: plot_u_chart and plot_t2_chart, given a dataset that has every column
\* their parameters name but no column 'material_salida', fail: an exception
\* reaches the caller and no chart is returned.
C24_MaterialColumnRequired ==
    WithoutMaterial => (out.err # "" /\ DOMAIN out = {"err", "steps"})

\* a T2 chart asked of four complete rows whose covariance can be inverted,
\* in a frame without the column: the call ends in KeyError
C24_T2WithoutMaterial ==
    /\ call.fn = "plot_t2_chart"
    /\ ~HasColumn(call.df, "material_salida")
    /\ call.df.n = 4
    /\ call.requested = <<"c1", "c2">>
    /\ plot_t2_chart(T2Frame(call.df.cols["c1"], call.df.cols["c2"], TRUE),
                     call.requested, call.fq, call.style).err = ""
    /\ out.err = "KeyError"

\* the frame df cut down to the rows at the positions in rows
RowsOf(df, rows) ==
    [n |-> Len(rows),
     cols |-> [k \in DOMAIN df.cols |-> [i \in 1..Len(rows) |-> df.cols[k][rows[i]]]]]

\* the rows of the call's frame that have a value in every numeric column
Remaining ==
    SelectSeq([i \in 1..call.df.n |-> i],
              LAMBDA i : \A k \in 1..Len(call.requested) :
                            call.df.cols[call.requested[k]][i] # None)

\* a T2 call on a frame with the material column whose remaining rows, taken
\* alone, give a chart
T2OfRemainingRows ==
    /\ call.fn = "plot_t2_chart"
    /\ HasColumn(call.df, "material_salida")
    /\ plot_t2_chart(RowsOf(call.df, Remaining), call.requested, call.fq,
                     call.style).err = ""

\* C25: plot_t2_chart drops the rows with a missing value in any of
\* numeric_columns and returns a chart with exactly one T2 point per
\* remaining row, each with that row's label and that row's numeric values
\* in its hover text.
C25_T2PointPerRemainingRow ==
    T2OfRemainingRows =>
        /\ out.err = ""
        /\ Len(out.y) = Len(Remaining)
        /\ \A k \in 1..Len(Remaining) :
             /\ out.x[k] = call.df.cols["material_salida"][Remaining[k]]
             /\ out.hovertext[k].index = out.x[k]
             /\ out.hovertext[k].t2 = out.y[k]
             /\ \A c \in 1..Len(call.requested) :
                  out.hovertext[k].values[c]
                      = Val(call.df.cols[call.requested[c]][Remaining[k]])

\* five rows, one of them with a missing cell, the other four fit for a
\* chart: the call ends in ValueError
C25_IncompleteRowFailsChart ==
    /\ T2OfRemainingRows
    /\ call.df.n = 5
    /\ Len(Remaining) = 4
    /\ out.err = "ValueError"

(* --------------------- model against actual (C26) --------------------- *)

\* the orders of the rows 1..n: every way to list each row once
RowOrders(n) == {p \in [1..n -> 1..n] : \A i, j \in 1..n : p[i] = p[j] => i = j}

\* C26: plot_model_vs_actual_timeseries_with_hover plots the rows in
\* ascending order of str(id) (the order of strings, not of numbers), and at
\* every position the x value, the actual value, the predicted value and the
\* hover text (id, actual, predicted, each feature of feature_names) are
\* those of one and the same row of the dataset, every row plotted once.
C26_RowsByIdString ==
    (call.fn = "plot_model_vs_actual_timeseries_with_hover" /\ out.err = "") =>
        LET n == call.df.n
            ids == call.df.cols["id"]
        IN  /\ Len(out.actual.x) = n
            /\ Len(out.predicted.x) = n
            /\ \E p \in RowOrders(n) :
                 /\ \A k \in 1..(n - 1) :
                      ~StrLt(Digits(ids[p[k + 1]]), Digits(ids[p[k]]))
                 /\ \A k \in 1..n :
                      /\ out.actual.x[k] = ToString(ids[p[k]])
                      /\ out.predicted.x[k] = ToString(ids[p[k]])
                      /\ out.actual.y[k] = call.df.cols["target"][p[k]]
                      /\ out.predicted.y[k] = call.predict[p[k]]
                      /\ out.actual.hovertext[k] =
                           [id |-> ToString(ids[p[k]]),
                            actual |-> call.df.cols["target"][p[k]],
                            predicted |-> call.predict[p[k]],
                            features |-> <<<<"f1", call.df.cols["f1"][p[k]]>>>>]
                      /\ out.predicted.hovertext[k] = out.actual.hovertext[k]

\* ids 2, 10, 1 in the dataset: plotted as 1, 10, 2, each with its own
\* row's values, the prediction off the actual value somewhere
C26_TenBeforeTwo ==
    /\ call.fn = "plot_model_vs_actual_timeseries_with_hover"
    /\ out.err = ""
    /\ call.df.cols["id"] = <<2, 10, 1>>
    /\ out.actual.x = <<"1", "10", "2">>
    /\ out.actual.y = <<call.df.cols["target"][3], call.df.cols["target"][2],
                        call.df.cols["target"][1]>>
    /\ out.predicted.y # out.actual.y
    /\ call.predict[1] # call.predict[2]

(* ------------------------- EWMA limits (C27) -------------------------- *)

\* an EWMA chart returned for 0 < lambda_value <= 1 (l_value >= 0 in every call)
EwmaInRange ==
    /\ call.fn = "plot_ewma_chart"
    /\ out.err = ""
    /\ RLt(RZero, call.lambda_value)
    /\ RLe(call.lambda_value, ROne)
    /\ call.l_value >= 0

\* lambda_value, 1.0 and 2.0 as floats
EwmaLambda == FDivInts(call.lambda_value[1], call.lambda_value[2])

\* l_value * (sqrt(lambda / (2 - lambda)) * sigma) in float64, sigma the sample
\* standard deviation of the column
EwmaAsymptote ==
    FMul(FFromInt(call.l_value),
         FMul(FSqrt(FDiv(EwmaLambda, FSub(FFromInt(2), EwmaLambda))), ewma_sigma(call.x)))

\* the half-width of the i-th point, i = 1, 2, ..., in float64 and in the
\* order the code multiplies:
\* l_value * (sqrt(lambda / (2 - lambda)) * sigma * sqrt(1 - (1 - lambda)^(2 i)))
EwmaHalfWidth(i) ==
    FMul(FFromInt(call.l_value),
         FMul(FMul(FSqrt(FDiv(EwmaLambda, FSub(FFromInt(2), EwmaLambda))), ewma_sigma(call.x)),
              FSqrt(FSub(FFromInt(1), FPow(FSub(FFromInt(1), EwmaLambda), 2 * i)))))

\* the half-widths never decrease, stay within the asymptote, and the lower
\* limit is the mean less the half-width, floored nowhere
EwmaWidening ==
    /\ \A i \in 1..Len(call.x) :
         /\ FLe(EwmaHalfWidth(i), EwmaAsymptote)
         /\ FEq(out.lcl[i], FSub(out.cl[i], EwmaHalfWidth(i)))
    /\ \A i \in 1..(Len(call.x) - 1) : FLe(EwmaHalfWidth(i), EwmaHalfWidth(i + 1))

\* C27: for 0 < lambda_value <= 1 and l_value >= 0 the limits of
\* plot_ewma_chart are symmetric about the mean at every point, UCL - mu ==
\* mu - LCL; the half-width
\* l_value*sigma*sqrt(lambda/(2-lambda))*sqrt(1-(1-lambda)^(2(i+1))) never
\* decreases from one point to the next and never exceeds
\* l_value*sigma*sqrt(lambda/(2-lambda)); the lower limit is mu less the
\* half-width, also when that is negative.
C27_EwmaLimitsSymmetric ==
    EwmaInRange =>
        /\ \A i \in 1..Len(call.x) :
             FEq(FSub(out.ucl[i], out.cl[i]), FSub(out.cl[i], out.lcl[i]))
        /\ EwmaWidening

\* a single observation: the chart is returned, its center line is the
\* observation, and UCL - mu and mu - LCL are NaN, equal to nothing
C27_SingleObservationNotSymmetric ==
    /\ EwmaInRange
    /\ Len(call.x) = 1
    /\ out.cl[1] = FFromInt(call.x[1])
    /\ FIsNaN(FSub(out.ucl[1], out.cl[1]))
    /\ FIsNaN(FSub(out.cl[1], out.lcl[1]))

\* with two or more observations the limits are mu +/- the half-width as
\* float64 gives them: UCL - mu and mu - LCL are within 2^-40 of each other
\* (not always equal), and the half-width widens as stated
EwmaSymmetricWithinRounding ==
    (EwmaInRange /\ Len(call.x) >= 2) =>
        /\ \A i \in 1..Len(call.x) :
             FBelow(FSub(FSub(out.ucl[i], out.cl[i]), FSub(out.cl[i], out.lcl[i])), 0 - 40)
        /\ EwmaWidening

\* x = 0, 1 with lambda_value 0.5 and l_value 1: UCL - mu and mu - LCL are
\* equal at the first point and differ in the last place at the second
EwmaRoundedAsymmetry ==
    /\ EwmaInRange
    /\ call.x = <<0, 1>> /\ call.lambda_value = Rat(1, 2) /\ call.l_value = 1
    /\ FSub(out.ucl[1], out.cl[1]) = FSub(out.cl[1], out.lcl[1])
    /\ FSub(out.ucl[2], out.cl[2]) # FSub(out.cl[2], out.lcl[2])
    /\ FBelow(FSub(FSub(out.ucl[2], out.cl[2]), FSub(out.cl[2], out.lcl[2])), 0 - 50)

\* a lower limit below zero is drawn as it is
EwmaLowerLimitBelowZero ==
    /\ EwmaInRange
    /\ \E i \in 1..Len(call.x) : FLt(out.lcl[i], FZero)

(* ------------------------ u chart points (C28) ------------------------ *)

\* the rows (1-based) of a u chart whose trace x holds their 0-based label
RowsIn(xs) == {i \in 1..Len(call.values) : \E k \in 1..Len(xs) : xs[k] = i - 1}

\* the defect rate of row i: its 0/1 defect count over its sample size
DefectRate(i) ==
    Rat(IF \/ (~IsNone(call.lower_spec) /\ call.values[i] < Val(call.lower_spec))
           \/ (~IsNone(call.upper_spec) /\ call.values[i] > Val(call.upper_spec))
        THEN 1 ELSE 0,
        call.sizes[i])

\* the points of a trace are those of rows, each once, in row order, each
\* with its own rate and hover text
TraceOfRows(xs, ys, text, rows) ==
    /\ Len(xs) = Cardinality(rows)
    /\ Len(ys) = Len(xs)
    /\ Len(text) = Len(xs)
    /\ \A k \in 1..Len(xs) :
         /\ xs[k] + 1 \in rows
         /\ ys[k] = DefectRate(xs[k] + 1)
         /\ text[k] = <<xs[k], call.values[xs[k] + 1]>>
    /\ \A k \in 1..(Len(xs) - 1) : xs[k] < xs[k + 1]

\* C28: in a u chart every row is a point of exactly one of the two point
\* traces: of 'Out of Control' iff its defect rate u_i is strictly above its
\* own UCL_i, of the in-control trace otherwise (a rate below LCL_i does not
\* flag a row); each row appears once, with its own hover text.
C28_UChartPointTraces ==
    (call.fn = "plot_u_chart" /\ out.err = "") =>
        LET n == Len(call.values)
            above == {i \in 1..n : NLt(out.ucl[i], Num(DefectRate(i)))}
        IN  /\ TraceOfRows(out.ooc_x, out.ooc_y, out.ooc_text, above)
            /\ TraceOfRows(out.in_x, out.in_y, out.in_text, (1..n) \ above)

\* eleven rows: the large sample in the middle has no defect and a rate
\* below its lower limit, which is above 0, and is drawn in control; the ten
\* others are above their upper limits and drawn out of control
C28_BelowLclNotFlagged ==
    /\ call.fn = "plot_u_chart" /\ out.err = ""
    /\ Len(call.values) = 11
    /\ NLt(Num(RZero), out.lcl[6])
    /\ NLt(Num(DefectRate(6)), out.lcl[6])
    /\ out.in_x = <<5>>
    /\ Len(out.ooc_x) = 10

(* ------------------- defect count and indicator (C29) ----------------- *)

\* 1 iff x is strictly below lower_spec or strictly above upper_spec of the call
Indicator(x) ==
    IF \/ (~IsNone(call.lower_spec) /\ x < Val(call.lower_spec))
       \/ (~IsNone(call.upper_spec) /\ x > Val(call.upper_spec))
    THEN 1 ELSE 0

\* an np or p chart whose subgroups are the single rows
OneRowSubgroups ==
    /\ call.fn \in {"plot_np_chart", "plot_p_chart"}
    /\ call.subgroup_size = 1
    /\ \A i, j \in 1..Len(call.index) : call.index[i] = call.index[j] => i = j

\* C29: for every value and every lower_spec / upper_spec (lower_spec above
\* upper_spec included) the defect count plot_c_chart plots for a row is the
\* 0/1 indicator that plot_np_chart, plot_p_chart and plot_u_chart use: 1 iff
\* the value is strictly below lower_spec or strictly above upper_spec.
C29_DefectCountIsIndicator ==
    ChartReturned =>
        /\ call.fn = "plot_c_chart" =>
             \A i \in 1..Len(call.values) : out.y[i] = Indicator(call.values[i])
        /\ (OneRowSubgroups /\ call.fn = "plot_np_chart") =>
             \A i \in 1..Len(call.values) : out.y[i] = Indicator(call.values[i])
        /\ (OneRowSubgroups /\ call.fn = "plot_p_chart") =>
             \A i \in 1..Len(call.values) : out.y[i] = RInt(Indicator(call.values[i]))
        /\ call.fn = "plot_u_chart" =>
             \A i \in 1..Len(call.values) :
                 (out.in_y \o out.ooc_y)[CHOOSE k \in 1..Len(call.values) :
                                            (out.in_x \o out.ooc_x)[k] = i - 1]
                     = Rat(Indicator(call.values[i]), call.sizes[i])

\* a c chart with lower_spec above upper_spec and a value strictly between
\* them: the row counts two defects
C29_TwoDefectsInOneRow ==
    /\ call.fn = "plot_c_chart" /\ out.err = ""
    /\ ~IsNone(call.lower_spec) /\ ~IsNone(call.upper_spec)
    /\ Val(call.lower_spec) > Val(call.upper_spec)
    /\ \E i \in 1..Len(call.values) :
         /\ call.values[i] < Val(call.lower_spec)
         /\ call.values[i] > Val(call.upper_spec)
         /\ out.y[i] = 2

(* --------------------- subgroups of np and p charts (C30) ------------- *)

SubgroupChart == ChartReturned /\ call.fn \in {"plot_np_chart", "plot_p_chart"}

\* the rows (1-based positions) whose label falls in the subgroup of key g
RowsOfSubgroup(g) ==
    {i \in 1..Len(call.index) : call.index[i] \div call.subgroup_size = g}

\* the chart's proportion of defectives: CL of the p chart, CL / n of the np chart
PBar ==
    IF call.fn = "plot_p_chart" THEN out.cl[1]
    ELSE NScale(Rat(1, call.subgroup_size), out.cl[1])

\* C30: in plot_np_chart and plot_p_chart, whatever the index labels and for
\* every subgroup_size >= 1, each subgroup has at most subgroup_size rows, so
\* every plotted defective count is <= subgroup_size, p_bar lies in [0, 1] and
\* the limits are real numbers; a subgroup is plotted for every row, a
\* trailing one of fewer than subgroup_size rows included.
C30_SubgroupsWithinSize ==
    SubgroupChart =>
        /\ \A k \in 1..Len(out.x) :
             /\ RowsOfSubgroup(out.x[k]) # {}
             /\ Cardinality(RowsOfSubgroup(out.x[k])) <= call.subgroup_size
             /\ call.fn = "plot_np_chart" => out.y[k] <= call.subgroup_size
        /\ \A i \in 1..Len(call.index) :
             \E k \in 1..Len(out.x) : i \in RowsOfSubgroup(out.x[k])
        /\ Len(out.x) > 0 =>
             /\ NLe(Num(RZero), PBar) /\ NLe(PBar, Num(ROne))
             /\ ~IsNaN(out.ucl[1]) /\ ~IsNaN(out.lcl[1])

\* an np chart of a dataset whose labels repeat: one subgroup holds more rows
\* than subgroup_size, its count exceeds subgroup_size and the upper limit
\* is NaN
C30_RepeatedLabelsOverfillSubgroup ==
    /\ SubgroupChart /\ call.fn = "plot_np_chart"
    /\ \E k \in 1..Len(out.x) :
         /\ Cardinality(RowsOfSubgroup(out.x[k])) > call.subgroup_size
         /\ out.y[k] > call.subgroup_size
         /\ IsNaN(out.ucl[k])

(* ------------------- calls leave their inputs alone (C23) ------------- *)

InSession == call.fn = "caller"

\* C23: after any sequence of calls to chart functions the caller's dataset
\* (rows, columns, values, order, index) and the mutable default arguments
\* (indices=[0], the T2 style dicts) are exactly as before the first call, and
\* the chart the last call returned is the chart the same call returned the
\* first time it was made in the session, whatever calls came in between.
C23_CallsLeaveInputsAlone ==
    InSession =>
        /\ call.data = call.first
        /\ call.defaults = Defaults
        /\ \A i \in MadeAt(call.last) : out = call.charts[i]

\* a T2 chart drawn with the default styles as the first call on a dataset
\* whose rows are not in the text order of their ids, then the call that
\* sorts its rows by id, then the same T2 call again
C23_SameCallAfterSortingCall ==
    /\ InSession
    /\ call.made = <<"plot_t2_chart", "plot_model_vs_actual_timeseries_with_hover">>
    /\ call.last = "plot_t2_chart"
    /\ out.err = "" /\ call.charts[1].err = "" /\ call.charts[2].err = ""
    /\ out.marker_size = <<6, 6, 6, 6>>
    /\ id_order(call.first.cols["id"]) # [i \in 1..call.first.n |-> i]

====
